---- MODULE Spec2Model ----
(***************************************************************************)
(* A model of github.com/adzil/structmap: the plan compilers               *)
(* (marshal.go, unmarshal.go), the two executors, the plan cache           *)
(* (cache.go) and the public entry points Marshal / Unmarshal.             *)
(*                                                                         *)
(* Go strings are TLA+ strings; TLC evaluates Len, \o, Head, Tail and      *)
(* SubSeq on them character by character, so the conversions (Split, Join, *)
(* FormatInt, ParseInt) are computed the way the library computes them.    *)
(***************************************************************************)
EXTENDS Integers, Sequences, FiniteSets, TLC

(***************************************************************************)
(* strings / strconv                                                       *)
(***************************************************************************)

\* The i-th byte of s, as a one-character string.
CharAt(s, i) == SubSeq(s, i, i)

DigitChars == <<"0", "1", "2", "3", "4", "5", "6", "7", "8", "9">>

IsDigit(c) == \E d \in 1..10 : DigitChars[d] = c

DigitVal(c) == (CHOOSE d \in 1..10 : DigitChars[d] = c) - 1

RECURSIVE FormatUint(_)
FormatUint(n) ==
    IF n < 10 THEN DigitChars[n + 1]
    ELSE FormatUint(n \div 10) \o DigitChars[(n % 10) + 1]

\* strconv.FormatInt(n, 10)
FormatInt(n) == IF n < 0 THEN "-" \o FormatUint(0 - n) ELSE FormatUint(n)

RECURSIVE ParseUint(_, _, _)
\* Accumulates the digits of s from position i on; -1 when a byte is not a
\* decimal digit.
ParseUint(s, i, acc) ==
    IF i > Len(s) THEN acc
    ELSE IF ~IsDigit(CharAt(s, i)) THEN -1
    ELSE ParseUint(s, i + 1, acc * 10 + DigitVal(CharAt(s, i)))

\* The integers of the model stay far below 2^31, so a width of 32 bits or
\* more never rejects a value.
InIntRange(n, bitSize) ==
    \/ bitSize >= 32
    \/ /\ n >= 0 - (2 ^ (bitSize - 1))
       /\ n <= (2 ^ (bitSize - 1)) - 1

\* strconv.ParseInt(s, 10, bitSize): an optional sign, then one or more
\* decimal digits, then the range check of the width.
ParseInt(s, bitSize) ==
    LET signed == Len(s) > 0 /\ CharAt(s, 1) \in {"+", "-"}
        neg    == Len(s) > 0 /\ CharAt(s, 1) = "-"
        body   == IF signed THEN Tail(s) ELSE s
        un     == IF Len(body) = 0 THEN -1 ELSE ParseUint(body, 1, 0)
        n      == IF neg THEN 0 - un ELSE un
    IN  IF un < 0
        THEN [err |-> "strconv.ParseInt: parsing \"" \o s \o "\": invalid syntax",
              val |-> 0]
        ELSE IF ~InIntRange(n, bitSize)
        THEN [err |-> "strconv.ParseInt: parsing \"" \o s \o "\": value out of range",
              val |-> 0]
        ELSE [err |-> "", val |-> n]

RECURSIVE SplitFrom(_, _, _, _)
SplitFrom(s, sep, i, cur) ==
    IF i > Len(s) THEN <<cur>>
    ELSE IF CharAt(s, i) = sep THEN <<cur>> \o SplitFrom(s, sep, i + 1, "")
    ELSE SplitFrom(s, sep, i + 1, cur \o CharAt(s, i))

\* strings.Split(s, sep) for a one-byte separator; Split("", sep) is <<"">>.
Split(s, sep) == SplitFrom(s, sep, 1, "")

RECURSIVE Join(_, _)
\* strings.Join(elems, sep)
Join(elems, sep) ==
    IF Len(elems) = 0 THEN ""
    ELSE IF Len(elems) = 1 THEN elems[1]
    ELSE elems[1] \o sep \o Join(Tail(elems), sep)

LowerChars == "abcdefghijklmnopqrstuvwxyz"
UpperChars == "ABCDEFGHIJKLMNOPQRSTUVWXYZ"
\* The punctuation bytes of a header token (the quote and the backquote,
\* which no key of the model holds, are left out).
TokenPunct == "!#$%&*+-.^_|~"

RECURSIVE IndexIn(_, _, _)
\* Position of byte c in s at or after i, 0 when absent.
IndexIn(s, c, i) ==
    IF i > Len(s) THEN 0
    ELSE IF CharAt(s, i) = c THEN i
    ELSE IndexIn(s, c, i + 1)

IsTokenChar(c) ==
    \/ IndexIn(LowerChars, c, 1) > 0
    \/ IndexIn(UpperChars, c, 1) > 0
    \/ IsDigit(c)
    \/ IndexIn(TokenPunct, c, 1) > 0

RECURSIVE CanonicalFrom(_, _, _)
CanonicalFrom(s, i, upper) ==
    IF i > Len(s) THEN ""
    ELSE LET c  == CharAt(s, i)
             lo == IndexIn(LowerChars, c, 1)
             up == IndexIn(UpperChars, c, 1)
             d  == IF upper /\ lo > 0 THEN CharAt(UpperChars, lo)
                   ELSE IF ~upper /\ up > 0 THEN CharAt(LowerChars, up)
                   ELSE c
         IN  d \o CanonicalFrom(s, i + 1, c = "-")

\* http.CanonicalHeaderKey, the KeyLookupFunc of HeaderMarshaler: a key with
\* a byte that is not a header token byte is returned unchanged.
CanonicalHeaderKey(s) ==
    IF \E i \in 1..Len(s) : ~IsTokenChar(CharAt(s, i)) THEN s
    ELSE CanonicalFrom(s, 1, TRUE)

(***************************************************************************)
(* reflect: types                                                          *)
(*                                                                         *)
(* A type is its Go spelling: "string", "int8", "[]int8", "*Inner".  The   *)
(* named types (records and the custom-conversion type) are in TypeTable.  *)
(* mv / uv say how the type declares MarshalValue / UnmarshalValue:        *)
(* "none", "value" (value receiver) or "pointer" (pointer receiver).       *)
(***************************************************************************)

Fld(name, tag, typ) ==
    [Name |-> name, Tag |-> tag, Anonymous |-> FALSE, Type |-> typ]

Embedded(name, tag, typ) ==
    [Name |-> name, Tag |-> tag, Anonymous |-> TRUE, Type |-> typ]

StructType(fields) ==
    [kind |-> "struct", elem |-> "", mv |-> "none", uv |-> "none",
     fields |-> fields]

TypeTable ==
    [ RawValue |-> [kind |-> "slice", elem |-> "string", mv |-> "value",
                    uv |-> "pointer", fields |-> <<>>],
      PtrValue |-> [kind |-> "slice", elem |-> "string", mv |-> "pointer",
                    uv |-> "pointer", fields |-> <<>>],
      testStruct |-> StructType(<<Fld("Ignored", "-", "string"),
                                  Fld("NotIgnored", "-,", "string"),
                                  Fld("Message", "message", "string")>>),
      Names |-> StructType(<<Fld("FirstName", "first_name", "string"),
                             Fld("LastName", ",required", "string")>>),
      Opts |-> StructType(<<Fld("S", "s,omitempty", "string"),
                            Fld("N", ",omitempty", "int8"),
                            Fld("L", "l,omitempty", "[]string")>>),
      OptsM |-> StructType(<<Fld("R", "r,omitempty", "RawValue"),
                             Fld("P", "p,omitempty", "*string")>>),
      Reqs |-> StructType(<<Fld("N", "n,required", "int8"),
                            Fld("L", ",required", "[]int8")>>),
      ReqsM |-> StructType(<<Fld("R", ",required", "RawValue"),
                             Fld("P", "p,required", "*string")>>),
      FullName |-> StructType(<<Fld("FirstName", "first_name", "string")>>),
      Occupation |-> StructType(<<Fld("JobTitle", "", "string")>>),
      Person |-> StructType(<<Embedded("FullName", "", "FullName"),
                              Fld("Occupation", "", "Occupation"),
                              Fld("Age", "", "int8")>>),
      Inner |-> StructType(<<Fld("X", "", "string")>>),
      Ptrs |-> StructType(<<Fld("P", "", "*string"),
                            Fld("Q", "q", "*Inner")>>),
      Slices |-> StructType(<<Fld("StrSlice", "", "[]string"),
                              Fld("IntSlice", "int_slice[]", "[]int8")>>),
      testHeader |-> StructType(<<Fld("ContentType", "content-type", "string"),
                                  Fld("Accept", "accept", "string")>>),
      BadFloat |-> StructType(<<Fld("Field", "", "string"),
                                Fld("Float64", "", "float64")>>),
      BadOpt |-> StructType(<<Fld("Field", ",unknownopt", "string")>>),
      BadSlice |-> StructType(<<Fld("Float64", "", "[]float64")>>),
      BothOpts |-> StructType(<<Fld("Field", ",required,omitempty", "string")>>),
      NestedReq |-> StructType(<<Fld("Nested", ",required", "Inner")>>),
      NestedReqP |-> StructType(<<Fld("Nested", "n,required", "*Inner")>>),
      NestedOmit |-> StructType(<<Fld("Nested", "n,omitempty", "Inner")>>),
      NestedOmitP |-> StructType(<<Fld("Nested", ",omitempty", "*Inner")>>),
      Custom |-> StructType(<<Fld("C", "c", "PtrValue")>>),
      Mid |-> StructType(<<Fld("A", "a", "string"),
                           Fld("N", "n,required", "[]int8"),
                           Fld("Z", "z", "string")>>),
      Embeds |-> StructType(<<Embedded("FullName", "", "FullName"),
                              Embedded("Occupation", "job", "Occupation"),
                              Embedded("RawValue", "", "RawValue"),
                              Embedded("Inner", "", "*Inner")>>),
      Keep |-> StructType(<<Fld("X", "", "string"),
                            Fld("Skip", "-", "string")>>),
      PtrKeep |-> StructType(<<Fld("K", "k", "*Keep"),
                               Fld("P", "p", "*string")>>),
      Node |-> StructType(<<Fld("Name", "name", "string"),
                            Fld("Next", "next", "*Node")>>),
      Tree |-> StructType(<<Fld("Root", "", "Branch")>>),
      Branch |-> StructType(<<Fld("Up", "up,omitempty", "*Tree")>>) ]

IsNamed(typ) == typ \in DOMAIN TypeTable

\* reflect.PointerTo(typ)
PointerTo(typ) == "*" \o typ

\* typ.Kind()
Kind(typ) ==
    IF IsNamed(typ) THEN TypeTable[typ].kind
    ELSE IF Len(typ) > 1 /\ CharAt(typ, 1) = "*" THEN "ptr"
    ELSE IF Len(typ) > 2 /\ SubSeq(typ, 1, 2) = "[]" THEN "slice"
    ELSE typ

\* typ.Elem() of a pointer or slice type
Elem(typ) ==
    IF IsNamed(typ) THEN TypeTable[typ].elem
    ELSE IF Kind(typ) = "ptr" THEN Tail(typ)
    ELSE SubSeq(typ, 3, Len(typ))

\* typ.NumField() and typ.Field(i) of a struct type (i counts from 1 here)
NumField(typ) == Len(TypeTable[typ].fields)

Field(typ, i) ==
    LET f == TypeTable[typ].fields[i]
    IN  [Name |-> f.Name, Tag |-> f.Tag, Anonymous |-> f.Anonymous,
         Type |-> f.Type, Index |-> i]

RECURSIVE TypeString(_)
\* typ.String(): a named type is qualified by its package.
TypeString(typ) ==
    IF IsNamed(typ) THEN "structmap_test." \o typ
    ELSE IF Kind(typ) = "ptr" THEN "*" \o TypeString(Elem(typ))
    ELSE IF Kind(typ) = "slice" THEN "[]" \o TypeString(Elem(typ))
    ELSE typ

\* typ.Implements(valueMarshalerReflectType): the method set of a named type
\* holds its value-receiver methods, the method set of a pointer to it holds
\* the pointer-receiver methods as well.
ImplementsValueMarshaler(typ) ==
    \/ IsNamed(typ) /\ TypeTable[typ].mv = "value"
    \/ /\ Kind(typ) = "ptr" /\ ~IsNamed(typ)
       /\ IsNamed(Elem(typ))
       /\ TypeTable[Elem(typ)].mv \in {"value", "pointer"}

\* typ.Implements(valueUnmarshalerReflectType)
ImplementsValueUnmarshaler(typ) ==
    \/ IsNamed(typ) /\ TypeTable[typ].uv = "value"
    \/ /\ Kind(typ) = "ptr" /\ ~IsNamed(typ)
       /\ IsNamed(Elem(typ))
       /\ TypeTable[Elem(typ)].uv \in {"value", "pointer"}

IntKinds == {"int", "int64", "int32", "int16", "int8"}

(***************************************************************************)
(* reflect: values                                                         *)
(*                                                                         *)
(* A string is a string, an integer an integer, a slice a tuple, a record  *)
(* the tuple of its fields, a pointer NilPtr or PtrTo(pointee).            *)
(***************************************************************************)

NilPtr == [nil |-> TRUE]

PtrTo(val) == [nil |-> FALSE, elem |-> val]

RECURSIVE Zero(_)
\* reflect.Zero(typ)
Zero(typ) ==
    CASE Kind(typ) = "string" -> ""
      [] Kind(typ) = "slice"  -> <<>>
      [] Kind(typ) = "ptr"    -> NilPtr
      [] Kind(typ) = "struct" ->
            [i \in 1..NumField(typ) |-> Zero(Field(typ, i).Type)]
      [] OTHER -> 0

\* A reflect.Value: its type, its content and whether it is addressable.
Value(typ, val, addr) == [typ |-> typ, val |-> val, addr |-> addr]

\* src.Field(i): a field of an addressable record is addressable.
ValueField(src, i) == Value(Field(src.typ, i).Type, src.val[i], src.addr)

\* src.Addr()
ValueAddr(src) == Value(PointerTo(src.typ), PtrTo(src.val), FALSE)

\* src.Elem() of a non-nil pointer
ValueElem(src) == Value(Elem(src.typ), src.val.elem, TRUE)

(***************************************************************************)
(* The flat mapping map[string][]string: NilMap, or a function from its    *)
(* keys to tuples of strings.                                              *)
(***************************************************************************)

NilMap == [nil |-> TRUE, m |-> <<>>]

MakeMap(m) == [nil |-> FALSE, m |-> m]

EmptyMap == MakeMap(<<>>)

HasKey(v, key) == key \in DOMAIN v.m

\* v[key]: the zero value (a nil slice) when the key is absent
MapGet(v, key) == IF HasKey(v, key) THEN v.m[key] ELSE <<>>

\* v[key] = val
MapSet(v, key, val) ==
    MakeMap([k \in (DOMAIN v.m) \cup {key} |-> IF k = key THEN val ELSE v.m[k]])

(***************************************************************************)
(* marshal.go: the marshal plan compiler                                   *)
(***************************************************************************)

errMissingValue == "missing required value"

errSkipField == "skip field"

NoPlan == [t |-> "nil"]

Compiled(m) == [err |-> "", m |-> m]

CompileError(msg) == [err |-> msg, m |-> NoPlan]

MarshalConfig(delimiter, keyLookupFunc) ==
    [Delimiter |-> delimiter, KeyLookupFunc |-> keyLookupFunc]

\* marshalConfig{MarshalConfig: config}
marshalConfig(config) ==
    [Delimiter |-> config.Delimiter, KeyLookupFunc |-> config.KeyLookupFunc,
     Name |-> <<>>, NamelessAnon |-> FALSE,
     Required |-> FALSE, OmitEmpty |-> FALSE]

\* MarshalConfig.delimiter
marshalDelimiter(c) == IF c.Delimiter # "" THEN c.Delimiter ELSE "."

\* c.KeyLookupFunc(key) for the functions the model configures
KeyLookupFunc(fn, key) ==
    IF fn = "CanonicalHeaderKey" THEN CanonicalHeaderKey(key) ELSE key

\* marshalConfig.name without the call of KeyLookupFunc.
name_nolookup(c) == Join(c.Name, marshalDelimiter(c))

\* marshalConfig.name
name(c) ==
    LET key == Join(c.Name, marshalDelimiter(c))
    IN  IF c.KeyLookupFunc # "nil" THEN KeyLookupFunc(c.KeyLookupFunc, key)
        ELSE key

\* marshalConfig.applyOption
marshalApplyOption(c, opt) ==
    CASE opt = "required"  -> [err |-> "", c |-> [c EXCEPT !.Required = TRUE]]
      [] opt = "omitempty" -> [err |-> "", c |-> [c EXCEPT !.OmitEmpty = TRUE]]
      [] opt = ""          -> [err |-> "", c |-> c]
      [] OTHER             -> [err |-> "unknown option " \o opt, c |-> c]

RECURSIVE marshalApplyOptions(_, _, _)
\* the option loop of newFieldMarshaler: tag[i], tag[i+1], ... in order,
\* stopping at the first error
marshalApplyOptions(c, tag, i) ==
    IF i > Len(tag) THEN [err |-> "", c |-> c]
    ELSE LET r == marshalApplyOption(c, tag[i])
         IN  IF r.err # "" THEN r ELSE marshalApplyOptions(r.c, tag, i + 1)

newKeyMarshaler(cfg) ==
    [key |-> name(cfg), required |-> cfg.Required, omitEmpty |-> cfg.OmitEmpty]

KeyedPlan(t, cfg) ==
    [t |-> t] @@ newKeyMarshaler(cfg)

newSliceMarshaler(cfg, typ) ==
    LET elem == Elem(typ)
    IN  IF Kind(elem) = "string"
        THEN Compiled(KeyedPlan("sliceMarshaler", cfg) @@ [intElem |-> FALSE])
        ELSE IF Kind(elem) \in IntKinds
        THEN Compiled(KeyedPlan("sliceMarshaler", cfg) @@ [intElem |-> TRUE])
        ELSE CompileError("cannot marshal from slice of " \o Kind(elem))

RECURSIVE newValueMarshaler(_, _)
RECURSIVE newFieldMarshaler(_, _)
RECURSIVE newStructFields(_, _, _, _)

\* The loop of newStructMarshaler from field i on; fields holds the field
\* plans appended so far.
newStructFields(cfg, typ, i, fields) ==
    IF i > NumField(typ)
    THEN Compiled([t |-> "structMarshaler", fields |-> fields])
    ELSE LET Then(r) ==
                 IF r.err = errSkipField
                 THEN newStructFields(cfg, typ, i + 1, fields)
                 ELSE IF r.err # "" THEN CompileError(r.err)
                 ELSE newStructFields(cfg, typ, i + 1, Append(fields, r.m))
         IN  Then(newFieldMarshaler(cfg, Field(typ, i)))

newStructMarshaler(cfg, typ) == newStructFields(cfg, typ, 1, <<>>)

\* newValueMarshaler without the check of the options of a record.
newValueMarshaler_nooptcheck(cfg, typ) ==
    IF ImplementsValueMarshaler(typ)
    THEN Compiled(KeyedPlan("methodMarshaler", cfg) @@ [ptrReceiver |-> FALSE])
    ELSE IF ImplementsValueMarshaler(PointerTo(typ))
    THEN Compiled(KeyedPlan("methodMarshaler", cfg) @@ [ptrReceiver |-> TRUE])
    ELSE CASE Kind(typ) = "ptr" ->
                LET Then(mv) ==
                        IF mv.err # "" THEN mv
                        ELSE Compiled([t |-> "pointerMarshaler",
                                       key |-> name(cfg),
                                       required |-> cfg.Required,
                                       elem |-> mv.m])
                IN  Then(newValueMarshaler(cfg, Elem(typ)))
           [] Kind(typ) = "struct" ->
                IF cfg.NamelessAnon
                THEN newStructMarshaler(
                        [cfg EXCEPT !.Name = SubSeq(cfg.Name, 1, Len(cfg.Name) - 1)],
                        typ)
                ELSE newStructMarshaler(cfg, typ)
           [] Kind(typ) = "slice" -> newSliceMarshaler(cfg, typ)
           [] Kind(typ) = "string" -> Compiled(KeyedPlan("stringMarshaler", cfg))
           [] Kind(typ) \in IntKinds -> Compiled(KeyedPlan("intMarshaler", cfg))
           [] OTHER -> CompileError("cannot marshal from " \o Kind(typ))

newValueMarshaler(cfg, typ) ==
    IF ImplementsValueMarshaler(typ)
    THEN Compiled(KeyedPlan("methodMarshaler", cfg) @@ [ptrReceiver |-> FALSE])
    ELSE IF ImplementsValueMarshaler(PointerTo(typ))
    THEN Compiled(KeyedPlan("methodMarshaler", cfg) @@ [ptrReceiver |-> TRUE])
    ELSE CASE Kind(typ) = "ptr" ->
                LET Then(mv) ==
                        IF mv.err # "" THEN mv
                        ELSE Compiled([t |-> "pointerMarshaler",
                                       key |-> name(cfg),
                                       required |-> cfg.Required,
                                       elem |-> mv.m])
                IN  Then(newValueMarshaler(cfg, Elem(typ)))
           [] Kind(typ) = "struct" ->
                IF cfg.Required \/ cfg.OmitEmpty
                THEN CompileError("cannot set any option for struct")
                ELSE IF cfg.NamelessAnon
                THEN newStructMarshaler(
                        [cfg EXCEPT !.Name = SubSeq(cfg.Name, 1, Len(cfg.Name) - 1)],
                        typ)
                ELSE newStructMarshaler(cfg, typ)
           [] Kind(typ) = "slice" -> newSliceMarshaler(cfg, typ)
           [] Kind(typ) = "string" -> Compiled(KeyedPlan("stringMarshaler", cfg))
           [] Kind(typ) \in IntKinds -> Compiled(KeyedPlan("intMarshaler", cfg))
           [] OTHER -> CompileError("cannot marshal from " \o Kind(typ))

\* newFieldMarshaler without the check of required together with omitempty.
newFieldMarshaler_nobothcheck(cfg, structFld) ==
    LET tag == Split(structFld.Tag, ",")
        namelessAnon == tag[1] = "" /\ structFld.Anonymous
        fname == IF tag[1] = "" THEN structFld.Name ELSE tag[1]
        fieldCfg == [Delimiter |-> cfg.Delimiter,
                     KeyLookupFunc |-> cfg.KeyLookupFunc,
                     Name |-> Append(cfg.Name, fname),
                     NamelessAnon |-> namelessAnon,
                     Required |-> FALSE, OmitEmpty |-> FALSE]
        opts == marshalApplyOptions(fieldCfg, tag, 2)
        Then(vm) ==
            IF vm.err # ""
            THEN CompileError("struct field " \o structFld.Name \o ": "
                              \o vm.err)
            ELSE Compiled([index |-> structFld.Index, marshaler |-> vm.m])
    IN  IF tag[1] = "-" /\ Len(tag) = 1 THEN CompileError(errSkipField)
        ELSE IF opts.err # "" THEN CompileError(opts.err)
        ELSE Then(newValueMarshaler(opts.c, structFld.Type))

newFieldMarshaler(cfg, structFld) ==
    LET tag == Split(structFld.Tag, ",")
        namelessAnon == tag[1] = "" /\ structFld.Anonymous
        fname == IF tag[1] = "" THEN structFld.Name ELSE tag[1]
        fieldCfg == [Delimiter |-> cfg.Delimiter,
                     KeyLookupFunc |-> cfg.KeyLookupFunc,
                     Name |-> Append(cfg.Name, fname),
                     NamelessAnon |-> namelessAnon,
                     Required |-> FALSE, OmitEmpty |-> FALSE]
        opts == marshalApplyOptions(fieldCfg, tag, 2)
        Then(vm) ==
            IF vm.err # ""
            THEN CompileError("struct field " \o structFld.Name \o ": "
                              \o vm.err)
            ELSE Compiled([index |-> structFld.Index, marshaler |-> vm.m])
    IN  IF tag[1] = "-" /\ Len(tag) = 1 THEN CompileError(errSkipField)
        ELSE IF opts.err # "" THEN CompileError(opts.err)
        ELSE IF opts.c.Required /\ opts.c.OmitEmpty
        THEN CompileError("a field cannot be set as both required and omitempty")
        ELSE Then(newValueMarshaler(opts.c, structFld.Type))

RECURSIVE newMarshaler(_, _)
newMarshaler(cfg, typ) ==
    CASE Kind(typ) = "struct" -> newStructMarshaler(cfg, typ)
      [] Kind(typ) = "ptr" ->
            LET Then(elem) ==
                    IF elem.err # "" THEN elem
                    ELSE Compiled([t |-> "pointerMarshaler", key |-> "",
                                   required |-> TRUE, elem |-> elem.m])
            IN  Then(newMarshaler(cfg, Elem(typ)))
      [] OTHER -> CompileError("cannot marshal from " \o Kind(typ))

(***************************************************************************)
(* marshal.go: the marshal executor                                        *)
(*                                                                         *)
(* A result is [err, v]: err is "" for nil, the message of the returned    *)
(* error, or "panic: ..." when the call panics; v is the mapping as the    *)
(* call leaves it.  The storage reuse of append(v[key][:0], ...) is not    *)
(* visible in the content of the mapping and is left out.                  *)
(***************************************************************************)

Panic(msg) == "panic: " \o msg

IsPanic(err) == Len(err) >= 6 /\ SubSeq(err, 1, 6) = "panic:"

\* fmt.Errorf("key %s: %w", key, errMissingValue)
MissingValueError(key) == "key " \o key \o ": " \o errMissingValue

\* The message of the panic of a reflect getter called on a Value of the
\* wrong kind.
KindPanic(method, src) ==
    Panic("reflect: call of reflect.Value." \o method \o " on "
          \o Kind(src.typ) \o " Value")

\* src.String(): the one getter that does not panic on a Value of another
\* kind; it returns "<T Value>" instead.
ValueString(src) ==
    IF Kind(src.typ) = "string" THEN src.val
    ELSE "<" \o TypeString(src.typ) \o " Value>"

\* The MarshalValue method of the custom-conversion types of TypeTable:
\* RawValue returns its own elements.  The receiver is the pointee when the
\* method is called through a pointer.
MarshalValue(src) ==
    IF Kind(src.typ) = "ptr"
    THEN IF src.val.nil
         THEN [err |-> Panic("invalid memory address or nil pointer dereference"),
               val |-> <<>>]
         ELSE [err |-> "", val |-> src.val.elem]
    ELSE [err |-> "", val |-> src.val]

\* stringMarshaler.marshal with the value appended to the entry of the key
\* instead of replacing it.
stringMarshaler_marshal_accumulate(m, src, v) ==
    LET val == ValueString(src)
    IN  IF val = "" /\ m.required
        THEN [err |-> MissingValueError(m.key), v |-> v]
        ELSE IF val = "" /\ m.omitEmpty THEN [err |-> "", v |-> v]
        ELSE [err |-> "", v |-> MapSet(v, m.key, MapGet(v, m.key) \o <<val>>)]

\* stringMarshaler.marshal
stringMarshaler_marshal(m, src, v) ==
    LET val == ValueString(src)
    IN  IF val = "" /\ m.required
        THEN [err |-> MissingValueError(m.key), v |-> v]
        ELSE IF val = "" /\ m.omitEmpty THEN [err |-> "", v |-> v]
        ELSE [err |-> "", v |-> MapSet(v, m.key, <<val>>)]

\* intMarshaler.marshal without the check of the required option.
intMarshaler_marshal_norequired(m, src, v) ==
    IF Kind(src.typ) \notin IntKinds
    THEN [err |-> KindPanic("Int", src), v |-> v]
    ELSE IF src.val = 0 /\ m.omitEmpty THEN [err |-> "", v |-> v]
    ELSE [err |-> "", v |-> MapSet(v, m.key, <<FormatInt(src.val)>>)]

\* intMarshaler.marshal
intMarshaler_marshal(m, src, v) ==
    IF Kind(src.typ) \notin IntKinds
    THEN [err |-> KindPanic("Int", src), v |-> v]
    ELSE IF src.val = 0 /\ m.required
    THEN [err |-> MissingValueError(m.key), v |-> v]
    ELSE IF src.val = 0 /\ m.omitEmpty THEN [err |-> "", v |-> v]
    ELSE [err |-> "", v |-> MapSet(v, m.key, <<FormatInt(src.val)>>)]

\* methodMarshaler.marshal
methodMarshaler_marshal(m, src, v) ==
    IF m.ptrReceiver /\ ~src.addr
    THEN [err |-> "unable to call MarshalValue to an unadressable value",
          v |-> v]
    ELSE LET recv == IF m.ptrReceiver THEN ValueAddr(src) ELSE src
             r == MarshalValue(recv)
         IN  IF ~ImplementsValueMarshaler(recv.typ)
             THEN [err |-> Panic("interface conversion: " \o TypeString(recv.typ)
                                 \o " is not structmap.ValueMarshaler"),
                   v |-> v]
             ELSE IF r.err # "" THEN [err |-> r.err, v |-> v]
             ELSE IF Len(r.val) = 0 /\ m.required
             THEN [err |-> MissingValueError(m.key), v |-> v]
             ELSE IF Len(r.val) = 0 /\ m.omitEmpty THEN [err |-> "", v |-> v]
             ELSE [err |-> "", v |-> MapSet(v, m.key, r.val)]

\* sliceMarshaler.marshal with an empty slice of an omitempty field written
\* as an empty entry.
sliceMarshaler_marshal_clear(m, src, v) ==
    IF Kind(src.typ) # "slice"
    THEN [err |-> KindPanic("Len", src), v |-> v]
    ELSE LET n == Len(src.val)
             out == [i \in 1..n |->
                        IF m.intElem THEN FormatInt(src.val[i]) ELSE src.val[i]]
         IN  IF n = 0 /\ m.required
             THEN [err |-> MissingValueError(m.key), v |-> v]
             ELSE [err |-> "", v |-> MapSet(v, m.key, out)]

\* sliceMarshaler.marshal
sliceMarshaler_marshal(m, src, v) ==
    IF Kind(src.typ) # "slice"
    THEN [err |-> KindPanic("Len", src), v |-> v]
    ELSE LET n == Len(src.val)
             out == [i \in 1..n |->
                        IF m.intElem THEN FormatInt(src.val[i]) ELSE src.val[i]]
         IN  IF n = 0 /\ m.required
             THEN [err |-> MissingValueError(m.key), v |-> v]
             ELSE IF n = 0 /\ m.omitEmpty THEN [err |-> "", v |-> v]
             ELSE [err |-> "", v |-> MapSet(v, m.key, out)]

RECURSIVE marshal(_, _, _)
RECURSIVE marshalFields(_, _, _, _)

\* The loop of structMarshaler.marshal going on to the later fields after a
\* field failed.
marshalFields_keepgoing(m, src, v, i) ==
    IF i > Len(m.fields) THEN [err |-> "", v |-> v]
    ELSE LET field == m.fields[i]
             Then(r) ==
                 IF r.err # ""
                 THEN [err |-> r.err,
                       v |-> marshalFields(m, src, r.v, i + 1).v]
                 ELSE marshalFields(m, src, r.v, i + 1)
         IN  Then(marshal(field.marshaler, ValueField(src, field.index), v))

\* The loop of structMarshaler.marshal from the i-th field plan on: the
\* first error ends it and the writes already made stay.
marshalFields(m, src, v, i) ==
    IF i > Len(m.fields) THEN [err |-> "", v |-> v]
    ELSE LET field == m.fields[i]
             Then(r) == IF r.err # "" THEN r
                        ELSE marshalFields(m, src, r.v, i + 1)
         IN  Then(marshal(field.marshaler, ValueField(src, field.index), v))

\* structMarshaler.marshal
structMarshaler_marshal(m, src, v) ==
    IF Kind(src.typ) # "struct" /\ Len(m.fields) > 0
    THEN [err |-> KindPanic("Field", src), v |-> v]
    ELSE marshalFields(m, src, v, 1)

\* pointerMarshaler.marshal: the element plan is run on src itself, the
\* pointer, not on the value it points to.
pointerMarshaler_marshal(m, src, v) ==
    IF ~src.val.nil THEN marshal(m.elem, src, v)
    ELSE IF m.required
    THEN IF m.key = "" THEN [err |-> errMissingValue, v |-> v]
         ELSE [err |-> MissingValueError(m.key), v |-> v]
    ELSE [err |-> "", v |-> v]

\* marshaler.marshal: the dynamic dispatch on the plan node
marshal(m, src, v) ==
    CASE m.t = "pointerMarshaler" -> pointerMarshaler_marshal(m, src, v)
      [] m.t = "structMarshaler"  -> structMarshaler_marshal(m, src, v)
      [] m.t = "stringMarshaler"  -> stringMarshaler_marshal(m, src, v)
      [] m.t = "intMarshaler"     -> intMarshaler_marshal(m, src, v)
      [] m.t = "methodMarshaler"  -> methodMarshaler_marshal(m, src, v)
      [] m.t = "sliceMarshaler"   -> sliceMarshaler_marshal(m, src, v)

(***************************************************************************)
(* cache.go, as one caller sees it: Get and getSync without interleaving.  *)
(* stor is the map of the cache (a function from the stored keys to their  *)
(* plans), got the result of getter(key).  The result is the returned plan *)
(* and error and the map as the call leaves it.                            *)
(***************************************************************************)

getSync(stor, key, got) ==
    IF key \in DOMAIN stor
    THEN [val |-> stor[key], err |-> "", stor |-> stor, called |-> FALSE]
    ELSE IF got.err # ""
    THEN [val |-> got.m, err |-> got.err, stor |-> stor, called |-> TRUE]
    ELSE [val |-> got.m, err |-> "", called |-> TRUE,
          stor |-> [k \in (DOMAIN stor) \cup {key} |->
                        IF k = key THEN got.m ELSE stor[k]]]

Get(stor, key, got) ==
    IF key \in DOMAIN stor
    THEN [val |-> stor[key], err |-> "", stor |-> stor, called |-> FALSE]
    ELSE getSync(stor, key, got)

(***************************************************************************)
(* marshal.go: Marshaler.Marshal.  src is the reflect.Value of the         *)
(* argument; the result is [err, v, stor].                                 *)
(***************************************************************************)

\* Marshaler.Marshal with the plan looked up before the check of the map.
Marshaler_Marshal_lookupfirst(config, stor, src, v) ==
    LET Run(g, r) ==
            [err |-> r.err, v |-> r.v, stor |-> g.stor, compiled |-> g.called]
        Then(g) ==
            IF v.nil
            THEN [err |-> "cannot marshal into a nil map", v |-> v,
                  stor |-> g.stor, compiled |-> g.called]
            ELSE IF g.err # ""
            THEN [err |-> g.err, v |-> v, stor |-> g.stor,
                  compiled |-> g.called]
            ELSE Run(g, marshal(g.val, src, v))
    IN  Then(Get(stor, src.typ, newMarshaler(marshalConfig(config), src.typ)))

Marshaler_Marshal(config, stor, src, v) ==
    IF v.nil
    THEN [err |-> "cannot marshal into a nil map", v |-> v, stor |-> stor,
          compiled |-> FALSE]
    ELSE LET Run(g, r) ==
                 [err |-> r.err, v |-> r.v, stor |-> g.stor,
                  compiled |-> g.called]
             Then(g) ==
                 IF g.err # ""
                 THEN [err |-> g.err, v |-> v, stor |-> g.stor,
                       compiled |-> g.called]
                 ELSE Run(g, marshal(g.val, src, v))
         IN  Then(Get(stor, src.typ,
                      newMarshaler(marshalConfig(config), src.typ)))

(***************************************************************************)
(* unmarshal.go: the unmarshal plan compiler                               *)
(***************************************************************************)

NoUnmarshaler == [t |-> "nil"]

UnmarshalConfig(delimiter) == [Delimiter |-> delimiter]

\* unmarshalConfig{UnmarshalConfig: config}
unmarshalConfig(config) == [Delimiter |-> config.Delimiter, Prefix |-> <<>>]

\* UnmarshalConfig.delimiter
unmarshalDelimiter(cfg) == IF cfg.Delimiter # "" THEN cfg.Delimiter ELSE "."

\* strconv.IntSize on a 64-bit platform
IntSize == 64

getIntSize(kind) ==
    CASE kind = "int"   -> IntSize
      [] kind = "int64" -> 64
      [] kind = "int32" -> 32
      [] kind = "int16" -> 16
      [] kind = "int8"  -> 8
      [] OTHER          -> -1

\* buildNewFunc: which allocation the returned function makes, "nil" when no
\* function is returned
buildNewFunc(typ) ==
    CASE Kind(typ) = "ptr" -> "pointer"
      [] Kind(typ) = "map" -> "map"
      [] OTHER             -> "nil"

\* fieldUnmarshaler.applyOption
unmarshalApplyOption(c, opt) ==
    CASE opt = "required"  -> [err |-> "", c |-> [c EXCEPT !.required = TRUE]]
      [] opt = "omitempty" -> [err |-> "", c |-> c]
      [] opt = ""          -> [err |-> "", c |-> c]
      [] OTHER             -> [err |-> "unknown option " \o opt, c |-> c]

RECURSIVE unmarshalApplyOptions(_, _, _)
\* the option loop of newFieldUnmarshaler
unmarshalApplyOptions(c, tag, i) ==
    IF i > Len(tag) THEN [err |-> "", c |-> c]
    ELSE LET r == unmarshalApplyOption(c, tag[i])
         IN  IF r.err # "" THEN r ELSE unmarshalApplyOptions(r.c, tag, i + 1)

UCompiled(unm, nested) == [err |-> "", unm |-> unm, nested |-> nested]

UCompileError(msg, nested) ==
    [err |-> msg, unm |-> NoUnmarshaler, nested |-> nested]

newSliceUnmarshaler(typ) ==
    LET elem == Elem(typ)
        bitSize == getIntSize(Kind(elem))
    IN  IF Kind(elem) = "string"
        THEN UCompiled([t |-> "sliceUnmarshaler", typ |-> typ, bitSize |-> 0],
                       FALSE)
        ELSE IF bitSize > 0
        THEN UCompiled([t |-> "sliceUnmarshaler", typ |-> typ,
                        bitSize |-> bitSize], FALSE)
        ELSE UCompileError("cannot unmarshal into slice of " \o Kind(elem), FALSE)

RECURSIVE newValueUnmarshaler(_, _)
RECURSIVE newFieldUnmarshaler(_, _)
RECURSIVE newStructUFields(_, _, _, _)

\* The loop of newStructUnmarshaler with a field that fails to compile left
\* out of the plan like a skipped one.
newStructUFields_skipfailed(cfg, typ, i, fields) ==
    IF i > NumField(typ)
    THEN UCompiled([t |-> "structUnmarshaler", fields |-> fields], TRUE)
    ELSE LET Then(r) ==
                 IF r.err # ""
                 THEN newStructUFields(cfg, typ, i + 1, fields)
                 ELSE newStructUFields(cfg, typ, i + 1, Append(fields, r.unm))
         IN  Then(newFieldUnmarshaler(cfg, Field(typ, i)))

\* The loop of newStructUnmarshaler from field i on.
newStructUFields(cfg, typ, i, fields) ==
    IF i > NumField(typ)
    THEN UCompiled([t |-> "structUnmarshaler", fields |-> fields], TRUE)
    ELSE LET Then(r) ==
                 IF r.err = errSkipField
                 THEN newStructUFields(cfg, typ, i + 1, fields)
                 ELSE IF r.err # "" THEN UCompileError(r.err, TRUE)
                 ELSE newStructUFields(cfg, typ, i + 1, Append(fields, r.unm))
         IN  Then(newFieldUnmarshaler(cfg, Field(typ, i)))

newStructUnmarshaler(cfg, typ) == newStructUFields(cfg, typ, 1, <<>>)

newValueUnmarshaler(cfg, typ) ==
    IF ImplementsValueUnmarshaler(typ)
    THEN UCompiled([t |-> "methodUnmarshaler", newFn |-> buildNewFunc(typ),
                    ptrReceiver |-> FALSE], FALSE)
    ELSE IF ImplementsValueUnmarshaler(PointerTo(typ))
    THEN UCompiled([t |-> "methodUnmarshaler", newFn |-> buildNewFunc(typ),
                    ptrReceiver |-> TRUE], FALSE)
    ELSE CASE Kind(typ) = "ptr" ->
                LET Then(r) ==
                        IF r.err # "" THEN UCompileError(r.err, FALSE)
                        ELSE UCompiled([t |-> "pointerUnmarshaler",
                                        elemTyp |-> Elem(typ), elem |-> r.unm],
                                       r.nested)
                IN  Then(newValueUnmarshaler(cfg, Elem(typ)))
           [] Kind(typ) = "struct" -> newStructUnmarshaler(cfg, typ)
           [] Kind(typ) = "string" ->
                UCompiled([t |-> "stringUnmarshaler"], FALSE)
           [] Kind(typ) = "slice" -> newSliceUnmarshaler(typ)
           [] OTHER ->
                IF getIntSize(Kind(typ)) > 0
                THEN UCompiled([t |-> "intUnmarshaler",
                                bitSize |-> getIntSize(Kind(typ))], FALSE)
                ELSE UCompileError("cannot unmarshal into " \o Kind(typ), FALSE)

\* newFieldUnmarshaler without the skip of the tag "-".
newFieldUnmarshaler_noskip(cfg, structFld) ==
    LET tag == Split(structFld.Tag, ",")
        field0 == [name |-> "", required |-> FALSE, nested |-> FALSE,
                   index |-> structFld.Index, unmarshaler |-> NoUnmarshaler]
        opts == unmarshalApplyOptions(field0, tag, 2)
        prefix == IF tag[1] # "" THEN Append(cfg.Prefix, tag[1])
                  ELSE IF ~structFld.Anonymous
                  THEN Append(cfg.Prefix, structFld.Name)
                  ELSE cfg.Prefix
        prefix2 == IF structFld.Anonymous /\ tag[1] = ""
                   THEN Append(prefix, structFld.Name) ELSE prefix
        Then(r) ==
            IF r.err # ""
            THEN [err |-> "struct field " \o structFld.Name \o ": " \o r.err,
                  unm |-> field0]
            ELSE IF r.nested
            THEN IF opts.c.required
                 THEN [err |-> "cannot set required option for struct",
                       unm |-> field0]
                 ELSE [err |-> "",
                       unm |-> [opts.c EXCEPT !.unmarshaler = r.unm,
                                              !.nested = TRUE]]
            ELSE [err |-> "",
                  unm |-> [opts.c EXCEPT
                             !.unmarshaler = r.unm, !.nested = FALSE,
                             !.name = Join(prefix2, unmarshalDelimiter(cfg))]]
    IN  IF opts.err # "" THEN [err |-> opts.err, unm |-> field0]
        ELSE Then(newValueUnmarshaler(
                    [Delimiter |-> cfg.Delimiter, Prefix |-> prefix],
                    structFld.Type))

\* newFieldUnmarshaler with the declared name of an anonymous field as a
\* segment like that of any other field.
newFieldUnmarshaler_anonname(cfg, structFld) ==
    LET tag == Split(structFld.Tag, ",")
        field0 == [name |-> "", required |-> FALSE, nested |-> FALSE,
                   index |-> structFld.Index, unmarshaler |-> NoUnmarshaler]
        opts == unmarshalApplyOptions(field0, tag, 2)
        prefix == IF tag[1] # "" THEN Append(cfg.Prefix, tag[1])
                  ELSE Append(cfg.Prefix, structFld.Name)
        prefix2 == prefix
        Then(r) ==
            IF r.err # ""
            THEN [err |-> "struct field " \o structFld.Name \o ": " \o r.err,
                  unm |-> field0]
            ELSE IF r.nested
            THEN IF opts.c.required
                 THEN [err |-> "cannot set required option for struct",
                       unm |-> field0]
                 ELSE [err |-> "",
                       unm |-> [opts.c EXCEPT !.unmarshaler = r.unm,
                                              !.nested = TRUE]]
            ELSE [err |-> "",
                  unm |-> [opts.c EXCEPT
                             !.unmarshaler = r.unm, !.nested = FALSE,
                             !.name = Join(prefix2, unmarshalDelimiter(cfg))]]
    IN  IF tag[1] = "-" /\ Len(tag) = 1
        THEN [err |-> errSkipField, unm |-> field0]
        ELSE IF opts.err # "" THEN [err |-> opts.err, unm |-> field0]
        ELSE Then(newValueUnmarshaler(
                    [Delimiter |-> cfg.Delimiter, Prefix |-> prefix],
                    structFld.Type))

\* The result is [err, unm] with unm the fieldUnmarshaler.
newFieldUnmarshaler(cfg, structFld) ==
    LET tag == Split(structFld.Tag, ",")
        field0 == [name |-> "", required |-> FALSE, nested |-> FALSE,
                   index |-> structFld.Index, unmarshaler |-> NoUnmarshaler]
        opts == unmarshalApplyOptions(field0, tag, 2)
        prefix == IF tag[1] # "" THEN Append(cfg.Prefix, tag[1])
                  ELSE IF ~structFld.Anonymous
                  THEN Append(cfg.Prefix, structFld.Name)
                  ELSE cfg.Prefix
        prefix2 == IF structFld.Anonymous /\ tag[1] = ""
                   THEN Append(prefix, structFld.Name) ELSE prefix
        Then(r) ==
            IF r.err # ""
            THEN [err |-> "struct field " \o structFld.Name \o ": " \o r.err,
                  unm |-> field0]
            ELSE IF r.nested
            THEN IF opts.c.required
                 THEN [err |-> "cannot set required option for struct",
                       unm |-> field0]
                 ELSE [err |-> "",
                       unm |-> [opts.c EXCEPT !.unmarshaler = r.unm,
                                              !.nested = TRUE]]
            ELSE [err |-> "",
                  unm |-> [opts.c EXCEPT
                             !.unmarshaler = r.unm, !.nested = FALSE,
                             !.name = Join(prefix2, unmarshalDelimiter(cfg))]]
    IN  IF tag[1] = "-" /\ Len(tag) = 1
        THEN [err |-> errSkipField, unm |-> field0]
        ELSE IF opts.err # "" THEN [err |-> opts.err, unm |-> field0]
        ELSE Then(newValueUnmarshaler(
                    [Delimiter |-> cfg.Delimiter, Prefix |-> prefix],
                    structFld.Type))

RECURSIVE newUnmarshaler(_, _)
\* The result is [err, unm].
newUnmarshaler(cfg, typ) ==
    CASE Kind(typ) = "struct" ->
            LET Then(r) == [err |-> r.err, unm |-> r.unm]
            IN  Then(newStructUnmarshaler(cfg, typ))
      [] Kind(typ) = "ptr" ->
            LET Then(elem) ==
                    IF elem.err # "" THEN elem
                    ELSE [err |-> "",
                          unm |-> [t |-> "pointerUnmarshaler",
                                   elemTyp |-> Elem(typ), elem |-> elem.unm]]
            IN  Then(newUnmarshaler(cfg, Elem(typ)))
      [] OTHER ->
            [err |-> "cannot unmarshal into " \o Kind(typ),
             unm |-> NoUnmarshaler]

(***************************************************************************)
(* unmarshal.go: the unmarshal executor                                    *)
(*                                                                         *)
(* dst is the reflect.Value of the destination; a result is [err, val]     *)
(* with val the content of the destination as the call leaves it.  ctx is  *)
(* unmarshalContext.value, the value sequence of the enclosing leaf.       *)
(***************************************************************************)

getValue(v, key) ==
    IF ~HasKey(v, key) THEN [val |-> <<>>, ok |-> FALSE]
    ELSE IF Len(v.m[key]) = 0 THEN [val |-> <<>>, ok |-> FALSE]
    ELSE [val |-> v.m[key], ok |-> TRUE]

\* The UnmarshalValue method of the custom-conversion types of TypeTable:
\* RawValue stores the value sequence it is given.
UnmarshalValue(value) == [err |-> "", val |-> value]

\* stringUnmarshaler.unmarshal
stringUnmarshaler_unmarshal(u, ctx, dst) == [err |-> "", val |-> ctx[1]]

\* intUnmarshaler.unmarshal
intUnmarshaler_unmarshal(u, ctx, dst) ==
    LET r == ParseInt(ctx[1], u.bitSize)
    IN  IF r.err # "" THEN [err |-> r.err, val |-> dst.val]
        ELSE [err |-> "", val |-> r.val]

\* methodUnmarshaler.unmarshal: newFn allocates the pointee of a nil
\* pointer, then UnmarshalValue is called on the destination (a pointer) or,
\* for a pointer receiver, on its address; it assigns through the pointer.
methodUnmarshaler_unmarshal(u, ctx, dst) ==
    LET alloc == IF u.newFn = "pointer" /\ dst.val.nil
                 THEN Value(dst.typ, PtrTo(Zero(Elem(dst.typ))), dst.addr)
                 ELSE dst
        recv == IF u.ptrReceiver THEN ValueAddr(alloc) ELSE alloc
        r == UnmarshalValue(ctx)
    IN  IF recv.val.nil
        THEN [err |-> Panic("invalid memory address or nil pointer dereference"),
              val |-> alloc.val]
        ELSE IF r.err # "" THEN [err |-> r.err, val |-> alloc.val]
        ELSE IF u.ptrReceiver THEN [err |-> "", val |-> r.val]
        ELSE [err |-> "", val |-> PtrTo(r.val)]

RECURSIVE FirstBadIndex(_, _, _)
\* The first position at or after i whose element does not parse, 0 if all
\* parse.
FirstBadIndex(value, bitSize, i) ==
    IF i > Len(value) THEN 0
    ELSE IF ParseInt(value[i], bitSize).err # "" THEN i
    ELSE FirstBadIndex(value, bitSize, i + 1)

\* sliceUnmarshaler.unmarshal with the error naming the position counted
\* from one.
sliceUnmarshaler_unmarshal_onebased(u, ctx, dst) ==
    LET n == Len(ctx)
        zero == Zero(Elem(u.typ))
        base == IF Len(dst.val) < n THEN [i \in 1..n |-> zero]
                ELSE SubSeq(dst.val, 1, n)
        bad == IF u.bitSize > 0 THEN FirstBadIndex(ctx, u.bitSize, 1) ELSE 0
        conv(i) == IF u.bitSize > 0 THEN ParseInt(ctx[i], u.bitSize).val
                   ELSE ctx[i]
    IN  IF bad > 0
        THEN [err |-> "int slice index #" \o FormatInt(bad) \o ": "
                      \o ParseInt(ctx[bad], u.bitSize).err,
              val |-> [i \in 1..n |-> IF i < bad THEN conv(i) ELSE base[i]]]
        ELSE [err |-> "", val |-> [i \in 1..n |-> conv(i)]]

\* sliceUnmarshaler.unmarshal.  The capacity of a slice is taken to be its
\* length: a longer input gets a fresh zeroed slice, a shorter or equal one
\* reuses the storage.  Elements are converted in order; a failure leaves
\* the elements before it converted and the rest as the resize left them.
sliceUnmarshaler_unmarshal(u, ctx, dst) ==
    LET n == Len(ctx)
        zero == Zero(Elem(u.typ))
        base == IF Len(dst.val) < n THEN [i \in 1..n |-> zero]
                ELSE SubSeq(dst.val, 1, n)
        bad == IF u.bitSize > 0 THEN FirstBadIndex(ctx, u.bitSize, 1) ELSE 0
        conv(i) == IF u.bitSize > 0 THEN ParseInt(ctx[i], u.bitSize).val
                   ELSE ctx[i]
    IN  IF bad > 0
        THEN [err |-> "int slice index #" \o FormatInt(bad - 1) \o ": "
                      \o ParseInt(ctx[bad], u.bitSize).err,
              val |-> [i \in 1..n |-> IF i < bad THEN conv(i) ELSE base[i]]]
        ELSE [err |-> "", val |-> [i \in 1..n |-> conv(i)]]

RECURSIVE unmarshal(_, _, _, _)
RECURSIVE unmarshalFields(_, _, _, _, _)

\* pointerUnmarshaler.unmarshal with a new pointee for every destination
pointerUnmarshaler_unmarshal_realloc(u, ctx, v, dst) ==
    LET ptr == PtrTo(Zero(u.elemTyp))
        Then(r) == [err |-> r.err, val |-> PtrTo(r.val)]
    IN  Then(unmarshal(u.elem, ctx, v,
                       ValueElem(Value(dst.typ, ptr, dst.addr))))

\* pointerUnmarshaler.unmarshal
pointerUnmarshaler_unmarshal(u, ctx, v, dst) ==
    LET ptr == IF dst.val.nil THEN PtrTo(Zero(u.elemTyp)) ELSE dst.val
        Then(r) == [err |-> r.err, val |-> PtrTo(r.val)]
    IN  Then(unmarshal(u.elem, ctx, v,
                       ValueElem(Value(dst.typ, ptr, dst.addr))))

\* structUnmarshaler.unmarshalField with the field of a missing key left as
\* it was.
unmarshalField_keep(ctx, field, v, dst) ==
    LET got == getValue(v, field.name)
        fdst == ValueField(dst, field.index)
        Then(r) ==
            [err |-> r.err, val |-> [dst.val EXCEPT ![field.index] = r.val]]
    IN  IF ~field.nested /\ ~got.ok
        THEN IF field.required
             THEN [err |-> "value not found for required key \""
                           \o field.name \o "\"",
                   val |-> dst.val]
             ELSE [err |-> "", val |-> dst.val]
        ELSE Then(unmarshal(field.unmarshaler,
                            IF field.nested THEN ctx ELSE got.val, v, fdst))

\* structUnmarshaler.unmarshalField: the result is the record with the
\* field as the call leaves it.
unmarshalField(ctx, field, v, dst) ==
    LET got == getValue(v, field.name)
        fdst == ValueField(dst, field.index)
        Then(r) ==
            [err |-> r.err, val |-> [dst.val EXCEPT ![field.index] = r.val]]
    IN  IF ~field.nested /\ ~got.ok
        THEN IF field.required
             THEN [err |-> "value not found for required key \""
                           \o field.name \o "\"",
                   val |-> dst.val]
             ELSE [err |-> "",
                   val |-> [dst.val EXCEPT ![field.index] = Zero(fdst.typ)]]
        ELSE Then(unmarshal(field.unmarshaler,
                            IF field.nested THEN ctx ELSE got.val, v, fdst))

\* The loop of structUnmarshaler.unmarshal from the i-th field plan on.
unmarshalFields(u, ctx, v, dst, i) ==
    IF i > Len(u.fields) THEN [err |-> "", val |-> dst.val]
    ELSE LET Then(r) ==
                 IF r.err # "" THEN r
                 ELSE unmarshalFields(u, ctx, v,
                                      Value(dst.typ, r.val, dst.addr), i + 1)
         IN  Then(unmarshalField(ctx, u.fields[i], v, dst))

\* structUnmarshaler.unmarshal
structUnmarshaler_unmarshal(u, ctx, v, dst) == unmarshalFields(u, ctx, v, dst, 1)

\* unmarshaler.unmarshal: the dynamic dispatch on the plan node
unmarshal(u, ctx, v, dst) ==
    CASE u.t = "pointerUnmarshaler" -> pointerUnmarshaler_unmarshal(u, ctx, v, dst)
      [] u.t = "structUnmarshaler"  -> structUnmarshaler_unmarshal(u, ctx, v, dst)
      [] u.t = "stringUnmarshaler"  -> stringUnmarshaler_unmarshal(u, ctx, dst)
      [] u.t = "intUnmarshaler"     -> intUnmarshaler_unmarshal(u, ctx, dst)
      [] u.t = "methodUnmarshaler"  -> methodUnmarshaler_unmarshal(u, ctx, dst)
      [] u.t = "sliceUnmarshaler"   -> sliceUnmarshaler_unmarshal(u, ctx, dst)

\* unmarshalerCacheKey
unmarshalerCacheKey(typ, config) == [typ |-> typ, config |-> config]

\* unmarshalerCache.Unmarshal with the plan of the type looked up before the
\* check of the destination.
unmarshalerCache_Unmarshal_lookupfirst(cfg, stor, v, dst) ==
    LET typ == IF Kind(dst.typ) = "ptr" THEN Elem(dst.typ) ELSE dst.typ
        key == unmarshalerCacheKey(typ, cfg)
        Getter(got) == [err |-> got.err, m |-> got.unm]
        Run(g, r) ==
            [err |-> r.err, dst |-> PtrTo(r.val), stor |-> g.stor,
             compiled |-> g.called]
        Then(g) ==
            IF Kind(dst.typ) # "ptr" \/ dst.val.nil
            THEN [err |-> "can only unmarshal into a non-nil pointer",
                  dst |-> dst.val, stor |-> g.stor, compiled |-> g.called]
            ELSE IF g.err # ""
            THEN [err |-> g.err, dst |-> dst.val, stor |-> g.stor,
                  compiled |-> g.called]
            ELSE Run(g, unmarshal(g.val, <<>>, v, ValueElem(dst)))
    IN  Then(Get(stor, key,
                 Getter(newUnmarshaler(unmarshalConfig(key.config), key.typ))))

\* unmarshalerCache.Unmarshal.  dst is the reflect.Value of the argument;
\* the result is [err, dst, stor] with dst the content of the argument (for a
\* pointer, the pointer with its pointee as the call leaves it).
unmarshalerCache_Unmarshal(cfg, stor, v, dst) ==
    IF Kind(dst.typ) # "ptr" \/ dst.val.nil
    THEN [err |-> "can only unmarshal into a non-nil pointer",
          dst |-> dst.val, stor |-> stor, compiled |-> FALSE]
    ELSE LET elem == ValueElem(dst)
             key == unmarshalerCacheKey(elem.typ, cfg)
             Getter(got) == [err |-> got.err, m |-> got.unm]
             Run(g, r) ==
                 [err |-> r.err, dst |-> PtrTo(r.val), stor |-> g.stor,
                  compiled |-> g.called]
             Then(g) ==
                 IF g.err # ""
                 THEN [err |-> g.err, dst |-> dst.val, stor |-> g.stor,
                       compiled |-> g.called]
                 ELSE Run(g, unmarshal(g.val, <<>>, v, elem))
         IN  Then(Get(stor, key,
                      Getter(newUnmarshaler(unmarshalConfig(key.config),
                                            key.typ))))

(***************************************************************************)
(* The callers' inputs                                                     *)
(***************************************************************************)

\* The strings of the callers' records: a field at an odd place of its
\* record holds "" or "a", a field at an even place "" or "b", so that the
\* values of neighbouring fields differ.
Strings(i) == IF i % 2 = 1 THEN {"", "a"} ELSE {"", "b"}

Ints == {0, -12}

RECURSIVE Values(_, _)
RECURSIVE StructValues(_, _)

\* The records of type typ made of the values of the fields i, i+1, ...
StructValues(typ, i) ==
    IF i > NumField(typ) THEN {<<>>}
    ELSE {<<h>> \o t : h \in Values(Field(typ, i).Type, i),
                       t \in StructValues(typ, i + 1)}

\* The values of type typ the callers pass in the i-th field of a record.
Values(typ, i) ==
    CASE typ \in {"RawValue", "PtrValue"} -> {<<>>, <<"x", "y">>}
      [] Kind(typ) = "struct" -> StructValues(typ, 1)
      [] Kind(typ) = "ptr" ->
            {NilPtr} \cup {PtrTo(e) : e \in Values(Elem(typ), i)}
      [] Kind(typ) = "slice" /\ typ \notin {"RawValue", "PtrValue"} ->
            IF Kind(Elem(typ)) = "string" THEN {<<>>, <<"a", "">>}
            ELSE {<<>>, <<7, -128>>}
      [] Kind(typ) = "string" -> Strings(i)
      [] Kind(typ) \in IntKinds -> Ints
      [] OTHER -> {0}

DefaultMarshaler == MarshalConfig("", "nil")

HeaderMarshaler == MarshalConfig("", "CanonicalHeaderKey")

Scenario(typ, marshaler, ucfg) ==
    [typ |-> typ, marshaler |-> marshaler, ucfg |-> ucfg]

\* The type a behaviour is about, the Marshaler it calls and the
\* UnmarshalConfig it passes.
Scenarios ==
    {Scenario(t, DefaultMarshaler, UnmarshalConfig("")) :
        t \in {"testStruct", "Names", "Opts", "OptsM", "Reqs", "ReqsM",
               "Person", "Ptrs", "Slices", "BadFloat", "BadOpt", "string",
               "BadSlice", "BothOpts", "NestedReq", "NestedReqP",
               "NestedOmit", "NestedOmitP", "Custom", "Mid", "Embeds",
               "PtrKeep"}}
    \cup {Scenario("Person", MarshalConfig("_", "nil"), UnmarshalConfig("_")),
          Scenario("testHeader", HeaderMarshaler, UnmarshalConfig(""))}

RECURSIVE MarshalKeys(_)
\* The keys a marshal plan writes.
MarshalKeys(m) ==
    CASE m.t = "structMarshaler" ->
            UNION {MarshalKeys(m.fields[i].marshaler) : i \in 1..Len(m.fields)}
      [] m.t = "pointerMarshaler" -> MarshalKeys(m.elem)
      [] m.t = "nil" -> {}
      [] OTHER -> {m.key}

RECURSIVE UnmarshalKeys(_)
\* The keys an unmarshal plan reads.
UnmarshalKeys(u) ==
    CASE u.t = "structUnmarshaler" ->
            UNION {IF u.fields[i].nested THEN UnmarshalKeys(u.fields[i].unmarshaler)
                   ELSE {u.fields[i].name} : i \in 1..Len(u.fields)}
      [] u.t = "pointerUnmarshaler" -> UnmarshalKeys(u.elem)
      [] OTHER -> {}

DeclaredNames(typ) ==
    IF Kind(typ) = "struct"
    THEN {Field(typ, i).Name : i \in 1..NumField(typ)}
    ELSE {}

\* The keys of the mappings a caller of scenario sc brings: the keys of the
\* two plans and the declared names of the fields.
SeedKeys(sc) ==
    MarshalKeys(newMarshaler(marshalConfig(sc.marshaler), sc.typ).m)
    \cup UnmarshalKeys(newUnmarshaler(unmarshalConfig(sc.ucfg), sc.typ).unm)
    \cup DeclaredNames(sc.typ)

SeedSeqs == {<<>>, <<"7", "x">>}

\* Longer sequences for the record of slices: one element that does not
\* parse after two that do, and two that do not parse.
SliceSeeds == {<<"1", "2", "x">>, <<"1", "x", "y">>}

\* The mappings a caller brings to its first call: the nil map, the empty
\* map, and the maps that hold one value sequence under every key.
InitMappings(sc) ==
    {NilMap, EmptyMap}
    \cup {MakeMap([k \in SeedKeys(sc) |-> q]) :
             q \in SeedSeqs \cup (IF sc.typ = "Slices" THEN SliceSeeds
                                  ELSE {})}

RECURSIVE Dirty(_)
\* A value of type typ with no zero leaf and no leaf a conversion of the
\* seeds produces.
Dirty(typ) ==
    CASE typ \in {"RawValue", "PtrValue"} -> <<"old">>
      [] Kind(typ) = "struct" ->
            [i \in 1..NumField(typ) |-> Dirty(Field(typ, i).Type)]
      [] Kind(typ) = "ptr" -> PtrTo(Dirty(Elem(typ)))
      [] Kind(typ) = "slice" /\ typ \notin {"RawValue", "PtrValue"} ->
            IF Kind(Elem(typ)) = "string" THEN <<"old", "old", "old">>
            ELSE <<99, 99, 99>>
      [] Kind(typ) = "string" -> "old"
      [] OTHER -> 99

\* The destinations the callers pass: a zero record and a used one.
Destinations(typ) == {Zero(typ), Dirty(typ)}

\* The records the callers marshal: every value when passed by value, a
\* zero and a fully set record when passed by address.
Sources(typ, mode) ==
    CASE mode = "value"      -> Values(typ, 1)
      [] mode = "pointer"    -> Destinations(typ)
      [] mode = "nilpointer" -> {Zero(typ)}

Modes == {"value", "pointer", "nilpointer"}

\* The reflect.Value of the argument: the record, its address, a nil
\* pointer to its type, or ("ptrptr") the address of a pointer to the record.
Argument(typ, rec, mode) ==
    CASE mode = "value"      -> Value(typ, rec, FALSE)
      [] mode = "pointer"    -> Value(PointerTo(typ), PtrTo(rec), FALSE)
      [] mode = "nilpointer" -> Value(PointerTo(typ), NilPtr, FALSE)
      [] mode = "ptrptr"     ->
            Value(PointerTo(PointerTo(typ)), PtrTo(rec), FALSE)

\* The record types the caller also passes as &p, p a pointer to the record
RootPointerTypes == {"PtrKeep", "Names", "BadFloat"}

(***************************************************************************)
(* The state: one caller making Marshal and Unmarshal calls, one after     *)
(* the other, with one mapping.                                            *)
(***************************************************************************)

VARIABLES
    scn,    \* the scenario
    v,      \* the caller's mapping
    mstor,  \* Marshaler.cache.stor of the Marshaler of the scenario
    ustor,  \* defaultUnmarshaler.cache.stor
    call,   \* the last call: its operation, its argument (the record before
            \* and after), the returned error, whether it compiled a plan,
            \* whether it repeats the call before it
    prov    \* the Marshal call that filled the mapping from empty, if any

\* The state of the goroutines that call Get on one cache at the same time.
VARIABLES
    cstor,  \* cache.stor: the plan (with the identity of its allocation)
            \* stored under each key
    mu,     \* cache.mu: the goroutines holding the read lock and the one
            \* holding the write lock (0 when none)
    pc,     \* where each goroutine is in Get / getSync
    frame,  \* the locals of the Get call of each goroutine
    ret,    \* what the last Get call of each goroutine returned
    ninv,   \* how many times the getter was invoked for each key
    ngets   \* how many Get calls each goroutine has made

\* The state of one caller whose calls compile plans, one call of the
\* recursive compile functions per step.
VARIABLES
    desc    \* the call in progress: where it is, the direction and the type
            \* it compiles, the stack of the compile functions that have not
            \* returned, the error, whether the write lock of the cache is
            \* held, the keys stored in the two caches, the number of calls

\* The storage of one caller's slices: the mapping and a destination
\* record of slices, with the backing arrays they point to.
VARIABLES
    mem     \* the arrays (by identity), the slice header of every key of
            \* the mapping and of every field of the destination, the
            \* content of the mapping at the start, the last operation

svars == <<scn, v, mstor, ustor, call, prov>>

xvars == <<desc, mem>>

cvars == <<cstor, mu, pc, frame, ret, ninv, ngets>>

vars == <<scn, v, mstor, ustor, call, prov,
          cstor, mu, pc, frame, ret, ninv, ngets, desc, mem>>

\* The goroutines and the keys they ask for: two record types that compile
\* and one that does not.
Procs == {1, 2}

MaxGets == 2

CacheKeys == {"Names", "Slices", "BadFloat"}

NoEntry == [m |-> NoPlan, id |-> 0]

NoFrame == [key |-> "", val |-> NoEntry, err |-> "", ok |-> FALSE,
            invoked |-> FALSE, hitAtStart |-> FALSE, valid |-> FALSE]

NoDescent == [pc |-> "idle", dir |-> "m", root |-> "", stack |-> <<>>,
              err |-> "", lock |-> FALSE, stor |-> {}, calls |-> 0,
              depth |-> 0]

\* No plan is being compiled step by step.
DescentIdle == desc = NoDescent

\* A slice header: the identity of its backing array (0 for a nil slice),
\* its length and its capacity.
Hdr(arr, len, cap) == [arr |-> arr, len |-> len, cap |-> cap]

NilHdr == Hdr(0, 0, 0)

NoMem == [on |-> FALSE, heap |-> <<>>, map |-> <<>>, dst |-> <<>>,
          orig |-> <<>>, err |-> "", ops |-> 0, last |-> "none"]

\* No slice storage is followed.
MemIdle == mem = NoMem

\* No goroutine has called Get.
CacheIdle ==
    /\ cstor = <<>>
    /\ mu = [readers |-> {}, writer |-> 0]
    /\ pc = [p \in Procs |-> "idle"]
    /\ frame = [p \in Procs |-> NoFrame]
    /\ ret = [p \in Procs |-> NoFrame]
    /\ ninv = [k \in CacheKeys |-> 0]
    /\ ngets = [p \in Procs |-> 0]

NoCall == [op |-> "none", mode |-> "value", rec0 |-> <<>>, rec |-> <<>>,
           err |-> "", compiled |-> FALSE, again |-> FALSE]

\* Whether a call repeats the one before it: same operation, same argument.
Again(op, mode, rec0) ==
    call.op = op /\ call.mode = mode /\ call.rec0 = rec0

NoProv == [valid |-> FALSE, mode |-> "value", src |-> <<>>, err |-> ""]

Init ==
    /\ scn \in Scenarios
    /\ v \in InitMappings(scn)
    /\ mstor = <<>>
    /\ ustor = <<>>
    /\ call = NoCall
    /\ prov = NoProv
    /\ CacheIdle
    /\ DescentIdle
    /\ MemIdle

\* The caller calls Marshal(src, v), Marshal(&src, v) or Marshal((*T)(nil), v).
Marshal(src, mode) ==
    \E r \in {Marshaler_Marshal(scn.marshaler, mstor,
                                 Argument(scn.typ, src, mode), v)} :
        /\ v' = r.v
        /\ mstor' = r.stor
        /\ call' = [op |-> "Marshal", mode |-> mode, rec0 |-> src, rec |-> src,
                    err |-> r.err, compiled |-> r.compiled,
                    again |-> Again("Marshal", mode, src)]
        /\ prov' = IF v = EmptyMap
                   THEN [valid |-> TRUE, mode |-> mode, src |-> src,
                         err |-> r.err]
                   ELSE NoProv
        /\ UNCHANGED <<scn, ustor>>
        /\ UNCHANGED <<cvars, xvars>>

\* The caller calls Unmarshal(v, &dst), Unmarshal(v, dst) or
\* Unmarshal(v, (*T)(nil)) with the UnmarshalConfig of the scenario; in the
\* mode "ptrptr" dst is a pointer to the record, nil or not.
Unmarshal(dst, mode) ==
    \E r \in {unmarshalerCache_Unmarshal(scn.ucfg, ustor, v,
                                          Argument(scn.typ, dst, mode))} :
        /\ ustor' = r.stor
        /\ call' = [op |-> "Unmarshal", mode |-> mode, rec0 |-> dst,
                    rec |-> CASE mode = "pointer"    -> r.dst.elem
                              [] mode = "ptrptr"     -> r.dst.elem
                              [] mode = "value"      -> r.dst
                              [] mode = "nilpointer" -> dst,
                    err |-> r.err, compiled |-> r.compiled,
                    again |-> Again("Unmarshal", mode, dst)]
        /\ UNCHANGED <<scn, v, mstor, prov>>
        /\ UNCHANGED <<cvars, xvars>>

Next ==
    \/ \E mode \in Modes :
        \E src \in Sources(scn.typ, mode) : Marshal(src, mode)
    \/ \E mode \in Modes :
        \E dst \in (IF mode = "nilpointer" THEN {Zero(scn.typ)}
                    ELSE Destinations(scn.typ)) : Unmarshal(dst, mode)
    \/ /\ scn.typ \in RootPointerTypes
       /\ \E dst \in {NilPtr, PtrTo(Dirty(scn.typ))} : Unmarshal(dst, "ptrptr")

Spec == Init /\ [][Next]_vars

(***************************************************************************)
(* Goroutines calling Get on the plan cache of one Marshaler at the same   *)
(* time, one statement of cache.Get / cache.getSync per step.  The getter  *)
(* is the one Marshaler.Marshal passes: newMarshaler with the              *)
(* configuration of the Marshaler.                                         *)
(***************************************************************************)

\* The getter of Marshaler.Marshal
getter(key) == newMarshaler(marshalConfig(DefaultMarshaler), key)

CacheInit ==
    /\ scn = Scenario("Names", DefaultMarshaler, UnmarshalConfig(""))
    /\ v = EmptyMap
    /\ mstor = <<>>
    /\ ustor = <<>>
    /\ call = NoCall
    /\ prov = NoProv
    /\ CacheIdle
    /\ DescentIdle
    /\ MemIdle

\* A goroutine calls c.Get(key, getter).
Get_call(p, key) ==
    /\ pc[p] = "idle"
    /\ ngets[p] < MaxGets
    /\ ngets' = [ngets EXCEPT ![p] = @ + 1]
    /\ frame' = [frame EXCEPT ![p] =
                    [NoFrame EXCEPT !.key = key, !.valid = TRUE,
                                    !.hitAtStart = key \in DOMAIN cstor]]
    /\ pc' = [pc EXCEPT ![p] = "Get_RLock"]
    /\ UNCHANGED <<cstor, mu, ret, ninv>>
    /\ UNCHANGED <<svars, xvars>>

\* c.mu.RLock(): waits while a goroutine holds the write lock.
Get_RLock(p) ==
    /\ pc[p] = "Get_RLock"
    /\ mu.writer = 0
    /\ mu' = [mu EXCEPT !.readers = @ \cup {p}]
    /\ pc' = [pc EXCEPT ![p] = "Get_load"]
    /\ UNCHANGED <<cstor, frame, ret, ninv, ngets>>
    /\ UNCHANGED <<svars, xvars>>

\* val, ok := c.stor[key]
Get_load(p) ==
    /\ pc[p] = "Get_load"
    /\ frame' = IF frame[p].key \in DOMAIN cstor
                THEN [frame EXCEPT ![p].val = cstor[frame[p].key],
                                   ![p].ok = TRUE]
                ELSE [frame EXCEPT ![p].val = NoEntry, ![p].ok = FALSE]
    /\ pc' = [pc EXCEPT ![p] = "Get_RUnlock"]
    /\ UNCHANGED <<cstor, mu, ret, ninv, ngets>>
    /\ UNCHANGED <<svars, xvars>>

\* c.mu.RUnlock(), then the branch on ok: return, or call getSync.
Get_RUnlock(p) ==
    /\ pc[p] = "Get_RUnlock"
    /\ mu' = [mu EXCEPT !.readers = @ \ {p}]
    /\ pc' = [pc EXCEPT ![p] = IF frame[p].ok THEN "Get_return"
                                ELSE "getSync_Lock"]
    /\ UNCHANGED <<cstor, frame, ret, ninv, ngets>>
    /\ UNCHANGED <<svars, xvars>>

\* c.mu.Lock(): waits while a goroutine holds the read or the write lock.
getSync_Lock(p) ==
    /\ pc[p] = "getSync_Lock"
    /\ mu.writer = 0 /\ mu.readers = {}
    /\ mu' = [mu EXCEPT !.writer = p]
    /\ pc' = [pc EXCEPT ![p] = "getSync_load"]
    /\ UNCHANGED <<cstor, frame, ret, ninv, ngets>>
    /\ UNCHANGED <<svars, xvars>>

\* getSync without the second look at c.stor under the write lock.
getSync_load_nocheck(p) ==
    /\ pc[p] = "getSync_load"
    /\ frame' = frame
    /\ pc' = [pc EXCEPT ![p] = "getSync_getter"]
    /\ UNCHANGED <<cstor, mu, ret, ninv, ngets>>
    /\ UNCHANGED <<svars, xvars>>

\* if val, ok := c.stor[key]; ok { return val, nil }
getSync_load(p) ==
    /\ pc[p] = "getSync_load"
    /\ IF frame[p].key \in DOMAIN cstor
       THEN /\ frame' = [frame EXCEPT ![p].val = cstor[frame[p].key],
                                      ![p].err = ""]
            /\ pc' = [pc EXCEPT ![p] = "getSync_Unlock"]
       ELSE /\ frame' = frame
            /\ pc' = [pc EXCEPT ![p] = "getSync_getter"]
    /\ UNCHANGED <<cstor, mu, ret, ninv, ngets>>
    /\ UNCHANGED <<svars, xvars>>

\* getSync going on to the store when the getter returned an error.
getSync_getter_storefailed(p) ==
    /\ pc[p] = "getSync_getter"
    /\ \E key \in {frame[p].key} : \E got \in {getter(key)} :
           /\ ninv' = [ninv EXCEPT ![key] = @ + 1]
           /\ frame' = [frame EXCEPT
                          ![p].invoked = TRUE,
                          ![p].err = got.err,
                          ![p].val = IF got.err # "" THEN NoEntry
                                     ELSE [m |-> got.m, id |-> ninv[key] + 1]]
           /\ pc' = [pc EXCEPT ![p] = "getSync_store"]
    /\ UNCHANGED <<cstor, mu, ret, ngets>>
    /\ UNCHANGED <<svars, xvars>>

\* getSync returning the error of the getter without the deferred Unlock.
getSync_getter_nounlock(p) ==
    /\ pc[p] = "getSync_getter"
    /\ \E key \in {frame[p].key} : \E got \in {getter(key)} :
           /\ ninv' = [ninv EXCEPT ![key] = @ + 1]
           /\ frame' = [frame EXCEPT
                          ![p].invoked = TRUE,
                          ![p].err = got.err,
                          ![p].val = IF got.err # "" THEN NoEntry
                                     ELSE [m |-> got.m, id |-> ninv[key] + 1]]
           /\ pc' = [pc EXCEPT ![p] = IF got.err # "" THEN "Get_return"
                                       ELSE "getSync_store"]
    /\ UNCHANGED <<cstor, mu, ret, ngets>>
    /\ UNCHANGED <<svars, xvars>>

\* if val, err = getter(key); err != nil { return val, err }: a plan that
\* compiled is a fresh allocation.
getSync_getter(p) ==
    /\ pc[p] = "getSync_getter"
    /\ \E key \in {frame[p].key} : \E got \in {getter(key)} :
           /\ ninv' = [ninv EXCEPT ![key] = @ + 1]
           /\ frame' = [frame EXCEPT
                          ![p].invoked = TRUE,
                          ![p].err = got.err,
                          ![p].val = IF got.err # "" THEN NoEntry
                                     ELSE [m |-> got.m, id |-> ninv[key] + 1]]
           /\ pc' = [pc EXCEPT ![p] = IF got.err # "" THEN "getSync_Unlock"
                                       ELSE "getSync_store"]
    /\ UNCHANGED <<cstor, mu, ret, ngets>>
    /\ UNCHANGED <<svars, xvars>>

\* c.stor[key] = val (on a map made when c.stor is nil); return val, nil
getSync_store(p) ==
    /\ pc[p] = "getSync_store"
    /\ cstor' = [k \in (DOMAIN cstor) \cup {frame[p].key} |->
                    IF k = frame[p].key THEN frame[p].val ELSE cstor[k]]
    /\ pc' = [pc EXCEPT ![p] = "getSync_Unlock"]
    /\ UNCHANGED <<mu, frame, ret, ninv, ngets>>
    /\ UNCHANGED <<svars, xvars>>

\* defer c.mu.Unlock()
getSync_Unlock(p) ==
    /\ pc[p] = "getSync_Unlock"
    /\ mu' = [mu EXCEPT !.writer = 0]
    /\ pc' = [pc EXCEPT ![p] = "Get_return"]
    /\ UNCHANGED <<cstor, frame, ret, ninv, ngets>>
    /\ UNCHANGED <<svars, xvars>>

\* return val, err
Get_return(p) ==
    /\ pc[p] = "Get_return"
    /\ ret' = [ret EXCEPT ![p] = frame[p]]
    /\ frame' = [frame EXCEPT ![p] = NoFrame]
    /\ pc' = [pc EXCEPT ![p] = "idle"]
    /\ UNCHANGED <<cstor, mu, ninv, ngets>>
    /\ UNCHANGED <<svars, xvars>>

CacheNext ==
    \E p \in Procs :
        \/ \E key \in CacheKeys : Get_call(p, key)
        \/ Get_RLock(p)
        \/ Get_load(p)
        \/ Get_RUnlock(p)
        \/ getSync_Lock(p)
        \/ getSync_load(p)
        \/ getSync_getter(p)
        \/ getSync_store(p)
        \/ getSync_Unlock(p)
        \/ Get_return(p)

CacheSpec == CacheInit /\ [][CacheNext]_vars

\* The steps of a Get call that goroutine p has made
GetSteps(p) ==
    \/ Get_RLock(p)
    \/ Get_load(p)
    \/ Get_RUnlock(p)
    \/ getSync_Lock(p)
    \/ getSync_load(p)
    \/ getSync_getter(p)
    \/ getSync_store(p)
    \/ getSync_Unlock(p)
    \/ Get_return(p)

\* The scheduler runs every goroutine that can run, and a goroutine that
\* waits for the lock gets it once the lock stays free.
CacheFairSpec == CacheSpec /\ \A p \in Procs : WF_vars(GetSteps(p))

(***************************************************************************)
(* Helpers of the properties                                               *)
(***************************************************************************)

RECURSIVE NonZeroLeaves(_, _)
\* Every leaf of val is non-zero / non-empty.
NonZeroLeaves(typ, val) ==
    CASE Kind(typ) = "struct" ->
            \A i \in 1..NumField(typ) : NonZeroLeaves(Field(typ, i).Type, val[i])
      [] Kind(typ) = "ptr" -> ~val.nil /\ NonZeroLeaves(Elem(typ), val.elem)
      [] Kind(typ) = "slice" -> Len(val) > 0
      [] Kind(typ) = "string" -> val # ""
      [] OTHER -> val # 0

\* The plans of the scenario for a record passed by value / by address.
MPlan == newMarshaler(marshalConfig(scn.marshaler), scn.typ)

UPlan == newUnmarshaler(unmarshalConfig(scn.ucfg), scn.typ)

SameConfiguration ==
    /\ scn.marshaler.KeyLookupFunc = "nil"
    /\ marshalDelimiter(scn.marshaler) = unmarshalDelimiter(scn.ucfg)

\* The record types built from strings, integers, their slices, pointers,
\* nested and embedded records only, every field in the plan.
PlainRecordTypes == {"Names", "Opts", "Reqs", "Person", "Ptrs", "Slices"}

(***************************************************************************)
(* C1  Round trip.  For a record of a plain record type with no zero leaf, *)
(* Marshal into an empty mapping succeeds, and Unmarshal of that mapping   *)
(* into a zero record, with the same delimiter, succeeds and yields the    *)
(* marshaled record.                                                       *)
(***************************************************************************)
RoundTrip ==
    ( /\ scn.typ \in PlainRecordTypes
      /\ SameConfiguration
      /\ prov.valid /\ prov.mode = "value"
      /\ NonZeroLeaves(scn.typ, prov.src) )
    => /\ prov.err = ""
       /\ ( /\ call.op = "Unmarshal" /\ call.mode = "pointer"
            /\ call.rec0 = Zero(scn.typ) )
          => (call.err = "" /\ call.rec = prov.src)

WitnessRoundTrip ==
    /\ scn.typ = "Person" /\ SameConfiguration
    /\ prov.valid /\ prov.mode = "value" /\ NonZeroLeaves(scn.typ, prov.src)
    /\ call.op = "Unmarshal" /\ call.mode = "pointer"
    /\ call.rec0 = Zero(scn.typ) /\ call.err = "" /\ call.rec = prov.src

\* The mapping a Marshal call makes of v: the entries it writes into an
\* empty mapping laid over the entries of v.
Overwritten(v0, fresh, v1) ==
    /\ v1.nil = v0.nil
    /\ DOMAIN v1.m = DOMAIN v0.m \cup DOMAIN fresh.m
    /\ \A k \in DOMAIN v1.m :
          v1.m[k] = IF HasKey(fresh, k) THEN fresh.m[k] ELSE v0.m[k]

(***************************************************************************)
(* C2  Marshal is idempotent on the mapping.  A Marshal call that repeats  *)
(* the call before it (same record, passed the same way) leaves the        *)
(* mapping as the first call left it, whatever the mapping held before;    *)
(* and after every Marshal call into a non-nil mapping each key the call   *)
(* writes holds exactly what the call writes into an empty mapping, every  *)
(* other entry being what it was (overwrite, never accumulation).          *)
(***************************************************************************)
MarshalIdempotent ==
    [][ call'.op = "Marshal" =>
          /\ call'.again => v' = v
          /\ ~v.nil =>
                Overwritten(v,
                            Marshaler_Marshal(scn.marshaler, mstor,
                                Argument(scn.typ, call'.rec0, call'.mode),
                                EmptyMap).v,
                            v') ]_vars

\* A second Marshal of the same record into a mapping that held other values
\* under the keys of the record before the first.
WitnessMarshalIdempotent ==
    /\ call.op = "Marshal" /\ call.again /\ call.err = ""
    /\ scn.typ = "Slices" /\ call.rec0 = <<<<"a", "">>, <<7, -128>>>>
    /\ v = MakeMap([k \in {"StrSlice", "int_slice[]"} |->
                      IF k = "StrSlice" THEN <<"a", "">> ELSE <<"7", "-128">>]
                   @@ [k \in {"IntSlice"} |-> <<"7", "x">>])

RECURSIVE MLeaves(_, _, _)
\* The leaves of a record plan in the order structMarshaler.marshal visits
\* them, nested record plans flattened: the plan of the leaf, the
\* reflect.Value it is run on and the path of field indexes to it.  A
\* pointer plan is one leaf.
MLeaves(m, src, i) ==
    IF i > Len(m.fields) THEN <<>>
    ELSE LET field == m.fields[i]
             fsrc == ValueField(src, field.index)
             sub == MLeaves(field.marshaler, fsrc, 1)
         IN  (IF field.marshaler.t = "structMarshaler"
              THEN [j \in 1..Len(sub) |->
                       [sub[j] EXCEPT !.path = <<field.index>> \o @]]
              ELSE <<[plan |-> field.marshaler, src |-> fsrc,
                      path |-> <<field.index>>]>>)
             \o MLeaves(m, src, i + 1)

\* The leaves of the plan of the scenario for the record rec passed by value.
MarshalLeaves(rec) ==
    IF MPlan.err = "" /\ MPlan.m.t = "structMarshaler"
    THEN MLeaves(MPlan.m, Value(scn.typ, rec, FALSE), 1)
    ELSE <<>>

\* The value of a leaf is zero / empty: the empty string, the integer 0, a
\* zero-length slice, an empty custom conversion result, a nil pointer.
LeafEmpty(src) ==
    CASE Kind(src.typ) = "string" -> src.val = ""
      [] Kind(src.typ) = "slice" -> Len(src.val) = 0
      [] Kind(src.typ) = "ptr" -> src.val.nil
      [] OTHER -> src.val = 0

\* The error the leaf alone makes Marshal return.
LeafErr(leaf) == marshal(leaf.plan, leaf.src, EmptyMap).err

\* The loop of the fields comes to the i-th leaf: no leaf before it fails.
MReached(L, i) == \A j \in 1..(i - 1) : LeafErr(L[j]) = ""

RECURSIVE ULeaves(_, _, _)
\* The leaves of an unmarshal plan in the order structUnmarshaler.unmarshal
\* visits them, nested record plans flattened: the field plan, the
\* reflect.Value of the record that holds the field and the path to the
\* field.  A pointer to a record is one leaf.
ULeaves(u, dst, i) ==
    IF i > Len(u.fields) THEN <<>>
    ELSE LET field == u.fields[i]
             sub == ULeaves(field.unmarshaler, ValueField(dst, field.index), 1)
         IN  (IF field.unmarshaler.t = "structUnmarshaler"
              THEN [j \in 1..Len(sub) |->
                       [sub[j] EXCEPT !.path = <<field.index>> \o @]]
              ELSE <<[field |-> field, parent |-> dst,
                      path |-> <<field.index>>]>>)
             \o ULeaves(u, dst, i + 1)

\* The leaves of the plan of the scenario for the record rec passed by
\* address.
UnmarshalLeaves(rec) ==
    IF UPlan.err = "" /\ UPlan.unm.t = "structUnmarshaler"
    THEN ULeaves(UPlan.unm, Value(scn.typ, rec, TRUE), 1)
    ELSE <<>>

\* The error the leaf alone makes Unmarshal of the mapping m return.
ULeafErr(leaf, m) == unmarshalField(<<>>, leaf.field, m, leaf.parent).err

UReached(L, i, m) == \A j \in 1..(i - 1) : ULeafErr(L[j], m) = ""

RECURSIVE ValueAt(_, _)
\* The content of the field of rec at a path of field indexes.
ValueAt(rec, path) ==
    IF path = <<>> THEN rec ELSE ValueAt(rec[Head(path)], Tail(path))

MissingKeyError(key) == "value not found for required key \"" \o key \o "\""

(***************************************************************************)
(* C3  The required option.  Read for the field the call comes to: no      *)
(* field before it in the record makes the call fail, the mapping is not   *)
(* nil and the destination is a non-nil pointer.  For every leaf tagged    *)
(* required, with composed key k: Marshal of a record passed by value      *)
(* whose leaf is zero / empty returns the missing-value error that names   *)
(* k; with the same configuration on both sides the unmarshal plan has     *)
(* the same leaf, required, under the same k, and Unmarshal of a mapping   *)
(* without the key k returns the missing-key error that names k.  Marshal  *)
(* of Names{FirstName: "a", LastName: "b"} into an empty mapping succeeds  *)
(* and leaves {first_name: [a], LastName: [b]}.                            *)
(***************************************************************************)
RequiredOption ==
    /\ (call.op = "Marshal" /\ call.mode = "value" /\ ~v.nil) =>
          \A L \in {MarshalLeaves(call.rec0)} :
              \A i \in 1..Len(L) :
                (L[i].plan.required /\ LeafEmpty(L[i].src) /\ MReached(L, i))
                => call.err = MissingValueError(L[i].plan.key)
    /\ SameConfiguration =>
          \A L \in {MarshalLeaves(Zero(scn.typ))} :
          \A U \in {UnmarshalLeaves(Zero(scn.typ))} :
              \A i \in 1..Len(L) :
                L[i].plan.required =>
                    /\ i \in 1..Len(U)
                    /\ U[i].field.required
                    /\ U[i].field.name = L[i].plan.key
    /\ (call.op = "Unmarshal" /\ call.mode = "pointer") =>
          \A U \in {UnmarshalLeaves(call.rec0)} :
              \A i \in 1..Len(U) :
                ( /\ U[i].field.required /\ ~U[i].field.nested
                  /\ ~HasKey(v, U[i].field.name) /\ UReached(U, i, v) )
                => call.err = MissingKeyError(U[i].field.name)
    /\ ( /\ scn.typ = "Names" /\ prov.valid /\ prov.mode = "value"
          /\ prov.src = <<"a", "b">> )
       => /\ prov.err = ""
          /\ v = MakeMap(("first_name" :> <<"a">>) @@ ("LastName" :> <<"b">>))

\* Marshal of Reqs{N: -12} into an empty mapping failed on the empty slice L
\* after writing n, and Unmarshal of the mapping it left then failed on the
\* missing key L.
WitnessRequiredOption ==
    /\ scn.typ = "Reqs" /\ prov.valid /\ prov.mode = "value"
    /\ prov.src = <<-12, <<>>>> /\ prov.err = MissingValueError("L")
    /\ HasKey(v, "n") /\ ~HasKey(v, "L")
    /\ call.op = "Unmarshal" /\ call.mode = "pointer"
    /\ call.err = MissingKeyError("L")

RECURSIVE LeafOmitEmpty(_)
\* The leaf is tagged omitempty: a pointer plan keeps the option in the plan
\* of its element.
LeafOmitEmpty(plan) ==
    CASE plan.t = "pointerMarshaler" -> LeafOmitEmpty(plan.elem)
      [] plan.t = "structMarshaler" -> FALSE
      [] OTHER -> plan.omitEmpty

\* The entry of the key k is the same in v0 and v1: absent in both, or the
\* same value sequence.
SameEntry(v0, v1, k) ==
    /\ HasKey(v1, k) = HasKey(v0, k)
    /\ MapGet(v1, k) = MapGet(v0, k)

(***************************************************************************)
(* C4  The omitempty option on Marshal.  Read for the field the call comes *)
(* to (no field before it makes the call fail, the mapping is not nil).    *)
(* For every leaf tagged omitempty, with composed key k, of a record       *)
(* passed by value whose leaf is zero / empty: the entry of k is after the *)
(* call exactly what it was before it, absent or the same value sequence,  *)
(* and the call returns no error unless another leaf returns it.           *)
(***************************************************************************)
OmitEmptyUntouched ==
    [][ (call'.op = "Marshal" /\ call'.mode = "value" /\ ~v.nil) =>
          \A L \in {MarshalLeaves(call'.rec0)} :
              \A i \in 1..Len(L) :
                (LeafOmitEmpty(L[i].plan) /\ LeafEmpty(L[i].src)
                 /\ MReached(L, i))
                => /\ SameEntry(v, v', L[i].plan.key)
                   /\ \/ call'.err = ""
                      \/ \E j \in (1..Len(L)) \ {i} :
                            LeafErr(L[j]) = call'.err ]_vars

\* Marshal of the zero Opts record into a mapping that holds a value
\* sequence under each of its keys.
WitnessOmitEmptyUntouched ==
    /\ scn.typ = "Opts" /\ call.op = "Marshal" /\ call.mode = "value"
    /\ call.rec0 = Zero("Opts") /\ call.err = ""
    /\ \A k \in {"s", "N", "l"} : MapGet(v, k) = <<"7", "x">>

(***************************************************************************)
(* C5  Unmarshal of a missing value.  Read for the field the call comes to *)
(* (the destination is a non-nil pointer, no field before it makes the     *)
(* call fail).  For every leaf that is not nested and not required, whose  *)
(* composed key is absent from the mapping or holds a zero-length value    *)
(* sequence: the field is its zero value after the call, whatever it held  *)
(* before (a pointer field is nil: nothing was allocated or converted for  *)
(* it), and the call returns no error unless another leaf returns it.      *)
(***************************************************************************)
MissingValueZeroes ==
    (call.op = "Unmarshal" /\ call.mode = "pointer") =>
        \A U \in {UnmarshalLeaves(call.rec0)} :
            \A i \in 1..Len(U) :
              ( /\ ~U[i].field.required /\ ~U[i].field.nested
                /\ Len(MapGet(v, U[i].field.name)) = 0
                /\ UReached(U, i, v) )
              => /\ ValueAt(call.rec, U[i].path)
                      = Zero(Field(U[i].parent.typ, U[i].field.index).Type)
                 /\ \/ call.err = ""
                    \/ \E j \in (1..Len(U)) \ {i} :
                          ULeafErr(U[j], v) = call.err

\* Unmarshal into a used OptsM record of a mapping that holds zero-length
\* value sequences: the custom-conversion field and the pointer field are
\* zeroed.
WitnessMissingValueZeroes ==
    /\ scn.typ = "OptsM" /\ call.op = "Unmarshal" /\ call.mode = "pointer"
    /\ call.rec0 = Dirty("OptsM") /\ call.err = ""
    /\ HasKey(v, "r") /\ HasKey(v, "p")
    /\ v.m["r"] = <<>> /\ v.m["p"] = <<>>
    /\ call.rec = Zero("OptsM")

(***************************************************************************)
(* C6  The tags "-" and "-,".  For a record passed by value into a non-nil *)
(* mapping and a field tagged exactly "-": Marshal leaves the entry under  *)
(* the declared name of the field as it was, and the mapping it leaves     *)
(* does not depend on the value of the field (the value is written under   *)
(* no key); Unmarshal into a non-nil pointer leaves the field as it was,   *)
(* whatever the mapping holds.  A string field tagged "-," is written by a *)
(* Marshal that succeeds under the key "-", and set by an Unmarshal that   *)
(* succeeds from the first value under the key "-".                        *)
(***************************************************************************)
DashTag ==
    [][ \A i \in 1..(IF Kind(scn.typ) = "struct" THEN NumField(scn.typ) ELSE 0) :
          \A f \in {Field(scn.typ, i)} :
            /\ (f.Tag = "-" /\ call'.op = "Marshal" /\ call'.mode = "value"
                 /\ ~v.nil)
               => /\ SameEntry(v, v', f.Name)
                  /\ v' = Marshaler_Marshal(scn.marshaler, mstor,
                              Value(scn.typ,
                                    [call'.rec0 EXCEPT ![i] = Dirty(f.Type)],
                                    FALSE),
                              v).v
            /\ (f.Tag = "-" /\ call'.op = "Unmarshal"
                 /\ call'.mode = "pointer")
               => call'.rec[i] = call'.rec0[i]
            /\ (f.Tag = "-," /\ f.Type = "string" /\ call'.op = "Marshal"
                 /\ call'.mode = "value" /\ ~v.nil /\ call'.err = "")
               => (HasKey(v', "-") /\ v'.m["-"] = <<call'.rec0[i]>>)
            /\ (f.Tag = "-," /\ f.Type = "string" /\ call'.op = "Unmarshal"
                 /\ call'.mode = "pointer" /\ call'.err = "")
               => call'.rec[i] = (IF Len(MapGet(v, "-")) = 0 THEN ""
                                  ELSE v.m["-"][1]) ]_vars

\* Unmarshal into a used testStruct of a mapping with entries under
\* Ignored, "-" and message.
WitnessDashTag ==
    /\ scn.typ = "testStruct" /\ call.op = "Unmarshal"
    /\ call.mode = "pointer" /\ call.err = ""
    /\ call.rec0 = Dirty("testStruct")
    /\ \A k \in {"Ignored", "-", "message"} : MapGet(v, k) = <<"7", "x">>
    /\ call.rec = <<"old", "7", "7">>

(***************************************************************************)
(* C9  Marshal into a nil mapping.  For every source value the call        *)
(* returns the nil-map error, compiles no plan, leaves the plan cache as   *)
(* it was and writes nothing.                                              *)
(***************************************************************************)
MarshalNilMap ==
    [][ (call'.op = "Marshal" /\ v.nil) =>
          /\ call'.err = "cannot marshal into a nil map"
          /\ ~call'.compiled
          /\ mstor' = mstor
          /\ v' = v ]_vars

\* A first Marshal, of a record with no zero leaf, into the nil mapping.
WitnessMarshalNilMap ==
    /\ call.op = "Marshal" /\ v.nil /\ mstor = <<>>
    /\ scn.typ = "Person" /\ NonZeroLeaves(scn.typ, call.rec0)
    /\ call.err = "cannot marshal into a nil map"

\* The key of the plan cache of Unmarshal for the record type of the
\* scenario.
UKey == unmarshalerCacheKey(scn.typ, scn.ucfg)

(***************************************************************************)
(* C10  The destination of Unmarshal.  With a destination that is not a    *)
(* pointer, or a nil pointer, the call returns the non-nil-pointer error,  *)
(* looks up and compiles no plan, and leaves the plan cache and the        *)
(* destination as they were.  With a non-nil pointer the call resolves the *)
(* plan: it takes it from the cache or compiles it, stores a plan that     *)
(* compiled and returns the error of one that did not.                     *)
(***************************************************************************)
UnmarshalDestination ==
    [][ call'.op = "Unmarshal" =>
          /\ call'.mode \in {"value", "nilpointer"} =>
                /\ call'.err = "can only unmarshal into a non-nil pointer"
                /\ ~call'.compiled
                /\ ustor' = ustor
                /\ call'.rec = call'.rec0
          /\ call'.mode = "pointer" =>
                /\ call'.err # "can only unmarshal into a non-nil pointer"
                /\ call'.compiled = (UKey \notin DOMAIN ustor)
                /\ UPlan.err = "" =>
                      (UKey \in DOMAIN ustor' /\ ustor'[UKey] = UPlan.unm)
                /\ UPlan.err # "" =>
                      (call'.err = UPlan.err /\ ustor' = ustor) ]_vars

\* A first Unmarshal, into a used record passed by value, of a mapping with
\* entries under its keys.
WitnessUnmarshalDestination ==
    /\ call.op = "Unmarshal" /\ call.mode = "value" /\ ustor = <<>>
    /\ scn.typ = "Names" /\ call.rec0 = Dirty("Names")
    /\ MapGet(v, "first_name") = <<"7", "x">>
    /\ call.err = "can only unmarshal into a non-nil pointer"

(***************************************************************************)
(* C7  One compilation per key.  For a key whose compilation succeeds,     *)
(* under every interleaving of the statements of goroutines calling Get on *)
(* one cache: the getter is invoked at most once; every Get that has       *)
(* returned returned no error and the plan stored under the key, the very  *)
(* allocation; a Get that began when the plan was stored does not invoke   *)
(* the getter; and a stored plan is never replaced or removed.             *)
(***************************************************************************)
CompiledOnce ==
    [][ /\ \A k \in CacheKeys :
              getter(k).err = "" =>
                /\ ninv'[k] <= 1
                /\ \A p \in Procs :
                      /\ (ret'[p].valid /\ ret'[p].key = k) =>
                            /\ ret'[p].err = ""
                            /\ k \in DOMAIN cstor'
                            /\ ret'[p].val = cstor'[k]
                            /\ ret'[p].hitAtStart => ~ret'[p].invoked
                      /\ (frame'[p].valid /\ frame'[p].key = k
                           /\ frame'[p].hitAtStart) => ~frame'[p].invoked
        /\ \A k \in DOMAIN cstor :
              k \in DOMAIN cstor' /\ cstor'[k] = cstor[k] ]_vars

\* Two goroutines made their first Get of the same key at the same time,
\* both before a plan was stored; both have returned, one having compiled.
WitnessCompiledOnce ==
    /\ \A p \in Procs :
          /\ ngets[p] = 1 /\ pc[p] = "idle"
          /\ ret[p].valid /\ ret[p].key = "Names" /\ ~ret[p].hitAtStart
          /\ ~ret[p].ok
    /\ ret[1].invoked /\ ~ret[2].invoked
    /\ ret[1].val = ret[2].val
    /\ ninv["Names"] = 1

(***************************************************************************)
(* C8  A failed compilation is not stored.  For a key whose compilation    *)
(* fails the cache never has an entry, every Get that has returned         *)
(* invoked the getter and returned its error; the cache holds only plans   *)
(* that compiled, each under its key.                                      *)
(***************************************************************************)
FailedCompileNotStored ==
    /\ \A k \in CacheKeys :
          getter(k).err # "" =>
            /\ k \notin DOMAIN cstor
            /\ \A p \in Procs :
                  (ret[p].valid /\ ret[p].key = k) =>
                      /\ ret[p].invoked
                      /\ ret[p].err = getter(k).err
    /\ \A k \in DOMAIN cstor :
          getter(k).err = "" /\ cstor[k].m = getter(k).m

\* One goroutine called Get twice, one call after the other, for the key
\* that does not compile: the getter was invoked in both.
WitnessFailedCompileNotStored ==
    /\ ngets[1] = 2 /\ ngets[2] = 0 /\ pc[1] = "idle"
    /\ ret[1].valid /\ ret[1].key = "BadFloat" /\ ret[1].invoked
    /\ ret[1].err = "struct field Float64: cannot marshal from float64"
    /\ ninv["BadFloat"] = 2
    /\ "BadFloat" \notin DOMAIN cstor

(***************************************************************************)
(* Keys as the key rule composes them, from the declared type alone        *)
(***************************************************************************)

RECURSIVE RecordKind(_, _)
\* The type is a record or a pointer to one, without the custom conversion
\* of the direction dir ("m" for Marshal, "u" for Unmarshal).
RecordKind(typ, dir) ==
    LET custom(t) == IF dir = "m" THEN ImplementsValueMarshaler(t)
                     ELSE ImplementsValueUnmarshaler(t)
    IN  /\ ~custom(typ) /\ ~custom(PointerTo(typ))
        /\ \/ Kind(typ) = "struct"
           \/ Kind(typ) = "ptr" /\ RecordKind(Elem(typ), dir)

RECURSIVE RecordOf(_)
\* The record type a record-kind type leads to.
RecordOf(typ) == IF Kind(typ) = "ptr" THEN RecordOf(Elem(typ)) ELSE typ

RECURSIVE ComposedKeys(_, _, _, _, _, _)
\* The keys of the leaves of the record type typ from its i-th field on, in
\* declared order: the segments segs of the enclosing fields, then the
\* explicit name of the field, else its declared name, nothing for an
\* anonymous record without an explicit name; joined with the delimiter d
\* and passed through the key transform fn.  A field tagged "-" has no key.
ComposedKeys(typ, i, segs, d, fn, dir) ==
    IF i > NumField(typ) THEN <<>>
    ELSE LET f == Field(typ, i)
             tag == Split(f.Tag, ",")
             rec == RecordKind(f.Type, dir)
             seg == IF tag[1] # "" THEN <<tag[1]>>
                    ELSE IF f.Anonymous /\ rec THEN <<>>
                    ELSE <<f.Name>>
             here == IF f.Tag = "-" THEN <<>>
                     ELSE IF rec
                     THEN ComposedKeys(RecordOf(f.Type), 1, segs \o seg, d,
                                       fn, dir)
                     ELSE <<KeyLookupFunc(fn, Join(segs \o seg,
                                                  IF d = "" THEN "." ELSE d))>>
         IN  here \o ComposedKeys(typ, i + 1, segs, d, fn, dir)

RECURSIVE MarshalKeySeq(_)
\* The keys of the leaves of a marshal plan, in the order of the plan.
MarshalKeySeq(m) ==
    CASE m.t = "structMarshaler" ->
            IF Len(m.fields) = 0 THEN <<>>
            ELSE MarshalKeySeq(m.fields[1].marshaler)
                 \o MarshalKeySeq([m EXCEPT !.fields = Tail(m.fields)])
      [] m.t = "pointerMarshaler" -> MarshalKeySeq(m.elem)
      [] OTHER -> <<m.key>>

RECURSIVE UnmarshalKeySeq(_)
\* The keys of the leaves of an unmarshal plan, in the order of the plan.
UnmarshalKeySeq(u) ==
    CASE u.t = "structUnmarshaler" ->
            IF Len(u.fields) = 0 THEN <<>>
            ELSE (IF u.fields[1].nested
                  THEN UnmarshalKeySeq(u.fields[1].unmarshaler)
                  ELSE <<u.fields[1].name>>)
                 \o UnmarshalKeySeq([u EXCEPT !.fields = Tail(u.fields)])
      [] u.t = "pointerUnmarshaler" -> UnmarshalKeySeq(u.elem)
      [] OTHER -> <<>>

Range(q) == {q[i] : i \in 1..Len(q)}

(***************************************************************************)
(* C11  The key of a marshaled leaf.  At every Marshal call of a record    *)
(* passed by value into a non-nil mapping, for a type whose marshal plan   *)
(* compiles: the key of each leaf of the plan is the key transform of      *)
(* the Marshaler (the identity when none is set) applied to the name       *)
(* segments of the leaf joined outer to inner with the delimiter ("." when *)
(* the delimiter is empty).  The call changes no entry but those of these  *)
(* keys (so none under an untransformed key that is not itself a key), and *)
(* a call that succeeds on a record with no zero leaf leaves an entry      *)
(* under each of them.                                                     *)
(***************************************************************************)
MarshalKeyRule ==
    [][ (call'.op = "Marshal" /\ call'.mode = "value" /\ ~v.nil) =>
          \A P \in {MPlan} :
            P.err = "" =>
              \A K \in {ComposedKeys(scn.typ, 1, <<>>, scn.marshaler.Delimiter,
                                     scn.marshaler.KeyLookupFunc, "m")} :
                /\ MarshalKeySeq(P.m) = K
                /\ \A k \in (DOMAIN v.m) \cup (DOMAIN v'.m) :
                      k \notin Range(K) => SameEntry(v, v', k)
                /\ (call'.err = "" /\ NonZeroLeaves(scn.typ, call'.rec0))
                   => \A k \in Range(K) : HasKey(v', k) ]_vars

\* MarshalHeader of testHeader{ContentType: "a", Accept: "b"} into a mapping
\* with entries under content-type and accept: the values are under
\* Content-Type and Accept, the entries under the tag names are as before.
WitnessMarshalKeyRule ==
    /\ scn.typ = "testHeader" /\ scn.marshaler = HeaderMarshaler
    /\ call.op = "Marshal" /\ call.mode = "value" /\ call.err = ""
    /\ call.rec0 = <<"a", "b">>
    /\ MapGet(v, "Content-Type") = <<"a">> /\ MapGet(v, "Accept") = <<"b">>
    /\ MapGet(v, "content-type") = <<"7", "x">>
    /\ MapGet(v, "accept") = <<"7", "x">>

(***************************************************************************)
(* C12  The key of an unmarshaled leaf.  At every Unmarshal call into a    *)
(* non-nil pointer, for a type whose unmarshal plan compiles and a         *)
(* configuration with the delimiter d and the key transform f of the       *)
(* Marshaler: the key each leaf is read from is f applied to the name      *)
(* segments joined with d, and it is the key under which the marshal plan  *)
(* of the same type, when it compiles, writes the leaf.                    *)
(***************************************************************************)
UnmarshalKeyRule ==
    ( /\ call.op = "Unmarshal" /\ call.mode = "pointer"
      /\ marshalDelimiter(scn.marshaler) = unmarshalDelimiter(scn.ucfg) )
    => \A U \in {UPlan} :
          U.err = "" =>
            /\ UnmarshalKeySeq(U.unm)
                  = ComposedKeys(scn.typ, 1, <<>>, scn.ucfg.Delimiter,
                                 scn.marshaler.KeyLookupFunc, "u")
            /\ \A P \in {MPlan} :
                  P.err = "" => UnmarshalKeySeq(U.unm) = MarshalKeySeq(P.m)

\* Unmarshal, with the delimiter "_", of the mapping Marshal with the
\* delimiter "_" made of a Person: the record comes back.
WitnessUnmarshalKeyRule ==
    /\ scn.typ = "Person" /\ scn.ucfg = UnmarshalConfig("_")
    /\ prov.valid /\ prov.mode = "value" /\ prov.err = ""
    /\ NonZeroLeaves(scn.typ, prov.src)
    /\ HasKey(v, "Occupation_JobTitle")
    /\ call.op = "Unmarshal" /\ call.mode = "pointer" /\ call.err = ""
    /\ call.rec = prov.src

\* The option tokens of the tag of a field.
TagOptions(f) == Range(Tail(Split(f.Tag, ",")))

\* The fields of a record type whose tag carries both required and
\* omitempty.
BothOptionFields(typ) ==
    IF Kind(typ) # "struct" THEN {}
    ELSE {i \in 1..NumField(typ) :
            {"required", "omitempty"} \subseteq TagOptions(Field(typ, i))}

(***************************************************************************)
(* C13  required together with omitempty, both ways.  For every record    *)
(* type with a field whose tag carries both options, the compilation of    *)
(* the marshal plan and the compilation of the unmarshal plan both fail:   *)
(* a Marshal call into a non-nil mapping and an Unmarshal call into a      *)
(* non-nil pointer return the error of the compilation.                    *)
(***************************************************************************)
BothOptionsFail ==
    BothOptionFields(scn.typ) # {} =>
        /\ (call.op = "Marshal" /\ call.mode = "value" /\ ~v.nil) =>
              (MPlan.err # "" /\ call.err = MPlan.err)
        /\ (call.op = "Unmarshal" /\ call.mode = "pointer") =>
              (UPlan.err # "" /\ call.err = UPlan.err)

(***************************************************************************)
(* C13  required together with omitempty, amended.  For every record type  *)
(* with a field whose tag carries both options the compilation of the      *)
(* marshal plan fails, and a Marshal call of such a record into a non-nil  *)
(* mapping returns that error; no leaf of a compiled marshal plan has both *)
(* flags set.  The unmarshal compiler ignores omitempty: the unmarshal     *)
(* plan of a type whose fields are strings with recognised options         *)
(* compiles, the field with both options is in it as a required field, and *)
(* Unmarshal into a non-nil pointer fails only for a missing required key. *)
(***************************************************************************)
BothOptionsMarshalOnly ==
    /\ BothOptionFields(scn.typ) # {} =>
          \A P \in {MPlan} :
            /\ P.err # ""
            /\ (call.op = "Marshal" /\ call.mode = "value" /\ ~v.nil)
               => call.err = P.err
    /\ \A L \in {MarshalLeaves(Zero(scn.typ))} :
          \A j \in 1..Len(L) :
            ~(L[j].plan.required /\ LeafOmitEmpty(L[j].plan))
    /\ ( /\ BothOptionFields(scn.typ) # {}
         /\ \A i \in 1..NumField(scn.typ) :
               /\ Field(scn.typ, i).Type = "string"
               /\ TagOptions(Field(scn.typ, i))
                     \subseteq {"required", "omitempty", ""} )
       => \A U \in {UPlan} :
            /\ U.err = ""
            /\ \A i \in BothOptionFields(scn.typ) :
                  \E j \in 1..Len(U.unm.fields) :
                     U.unm.fields[j].index = i /\ U.unm.fields[j].required
            /\ (call.op = "Unmarshal" /\ call.mode = "pointer") =>
                  \/ call.err = ""
                  \/ \E j \in 1..Len(U.unm.fields) :
                        /\ U.unm.fields[j].required
                        /\ call.err = MissingKeyError(U.unm.fields[j].name)

\* Unmarshal into a BothOpts record: the plan compiled, and the call failed
\* on the missing key of the field tagged required,omitempty.
WitnessBothOptionsMarshalOnly ==
    /\ scn.typ = "BothOpts" /\ call.op = "Unmarshal" /\ call.mode = "pointer"
    /\ call.compiled /\ ~HasKey(v, "Field")
    /\ call.err = MissingKeyError("Field")
    /\ UKey \in DOMAIN ustor

\* The fields of a record type that are of record kind in the direction
\* dir and whose tag carries the option opt.
RecordFieldsWith(typ, opt, dir) ==
    IF Kind(typ) # "struct" THEN {}
    ELSE {i \in 1..NumField(typ) :
            /\ RecordKind(Field(typ, i).Type, dir)
            /\ opt \in TagOptions(Field(typ, i))}

(***************************************************************************)
(* C14  Options on a record-kind field, both ways.  For every record type *)
(* with a field that is a record or a pointer to one, tagged required or   *)
(* tagged omitempty, both compilations fail: a Marshal call into a non-nil *)
(* mapping and an Unmarshal call into a non-nil pointer return the error   *)
(* of the compilation.                                                     *)
(***************************************************************************)
RecordOptionsFail ==
    /\ (RecordFieldsWith(scn.typ, "required", "m")
          \cup RecordFieldsWith(scn.typ, "omitempty", "m")) # {}
       => ((call.op = "Marshal" /\ call.mode = "value" /\ ~v.nil) =>
              (MPlan.err # "" /\ call.err = MPlan.err))
    /\ (RecordFieldsWith(scn.typ, "required", "u")
          \cup RecordFieldsWith(scn.typ, "omitempty", "u")) # {}
       => ((call.op = "Unmarshal" /\ call.mode = "pointer") =>
              (UPlan.err # "" /\ call.err = UPlan.err))

(***************************************************************************)
(* C14  Options on a record-kind field, amended.  For every record type    *)
(* with a record-kind field tagged required or omitempty the compilation   *)
(* of the marshal plan fails, with the error that no option can be set for *)
(* a struct when that field is the first of the record, and a Marshal call *)
(* into a non-nil mapping returns the error.  For a record-kind field      *)
(* tagged required the compilation of the unmarshal plan fails, with the   *)
(* error that required cannot be set for a struct when that field is the   *)
(* first, and an Unmarshal call into a non-nil pointer returns the error.  *)
(* omitempty alone is ignored by the unmarshal compiler: the plan of a     *)
(* record made of such fields over the record Inner compiles, and          *)
(* Unmarshal into a non-nil pointer succeeds.                              *)
(***************************************************************************)
RecordOptionsRequiredOnly ==
    /\ \A M \in {RecordFieldsWith(scn.typ, "required", "m")
                  \cup RecordFieldsWith(scn.typ, "omitempty", "m")} :
          M # {} =>
            \A P \in {MPlan} :
              /\ P.err # ""
              /\ 1 \in M => P.err = "struct field " \o Field(scn.typ, 1).Name
                                     \o ": cannot set any option for struct"
              /\ (call.op = "Marshal" /\ call.mode = "value" /\ ~v.nil)
                 => call.err = P.err
    /\ \A R \in {RecordFieldsWith(scn.typ, "required", "u")} :
          R # {} =>
            \A U \in {UPlan} :
              /\ U.err # ""
              /\ 1 \in R => U.err = "cannot set required option for struct"
              /\ (call.op = "Unmarshal" /\ call.mode = "pointer")
                 => call.err = U.err
    /\ ( /\ RecordFieldsWith(scn.typ, "omitempty", "u") # {}
         /\ \A i \in 1..NumField(scn.typ) :
               /\ RecordKind(Field(scn.typ, i).Type, "u")
               /\ RecordOf(Field(scn.typ, i).Type) = "Inner"
               /\ TagOptions(Field(scn.typ, i)) \subseteq {"omitempty", ""} )
       => /\ UPlan.err = ""
          /\ (call.op = "Unmarshal" /\ call.mode = "pointer") => call.err = ""

\* Unmarshal into a NestedOmitP record with a nil pointer: the plan
\* compiled and the call set the field of the record it allocated.
WitnessRecordOptionsRequiredOnly ==
    /\ scn.typ = "NestedOmitP" /\ call.op = "Unmarshal"
    /\ call.mode = "pointer" /\ call.compiled /\ call.err = ""
    /\ call.rec0 = Zero("NestedOmitP")
    /\ MapGet(v, "Nested.X") = <<"7", "x">>
    /\ call.rec = <<PtrTo(<<"7">>)>>

(***************************************************************************)
(* C15  A failed compilation.  When the plan of the type does not compile *)
(* (the root is a string; a field is a float64 or a slice of float64,      *)
(* after a valid field or alone; a tag has an unknown option), a Marshal   *)
(* call into a non-nil mapping, with the record passed by value, by        *)
(* address or as a nil pointer, and an Unmarshal call into a non-nil       *)
(* pointer return the error of the compilation, which names the kind or    *)
(* the option; the mapping, the destination record and both plan caches    *)
(* are as before the call.                                                 *)
(***************************************************************************)
CompileFailure ==
    [][ /\ (call'.op = "Marshal" /\ ~v.nil) =>
              /\ \A P \in {MPlan} :
                    P.err # "" =>
                      /\ call'.err = P.err
                      /\ v' = v /\ mstor' = mstor /\ ustor' = ustor
              /\ scn.typ \in {"string", "BadFloat", "BadSlice", "BadOpt"} =>
                    /\ v' = v /\ mstor' = mstor /\ ustor' = ustor
                    /\ call'.err =
                         CASE scn.typ = "string" -> "cannot marshal from string"
                           [] scn.typ = "BadFloat" ->
                                "struct field Float64: cannot marshal from float64"
                           [] scn.typ = "BadSlice" ->
                                "struct field Float64: cannot marshal from slice of float64"
                           [] scn.typ = "BadOpt" -> "unknown option unknownopt"
        /\ (call'.op = "Unmarshal" /\ call'.mode = "pointer") =>
              /\ \A U \in {UPlan} :
                    U.err # "" =>
                      /\ call'.err = U.err
                      /\ call'.rec = call'.rec0
                      /\ v' = v /\ mstor' = mstor /\ ustor' = ustor
              /\ scn.typ \in {"string", "BadFloat", "BadSlice", "BadOpt"} =>
                    /\ call'.rec = call'.rec0
                    /\ v' = v /\ mstor' = mstor /\ ustor' = ustor
                    /\ call'.err =
                         CASE scn.typ = "string" -> "cannot unmarshal into string"
                           [] scn.typ = "BadFloat" ->
                                "struct field Float64: cannot unmarshal into float64"
                           [] scn.typ = "BadSlice" ->
                                "struct field Float64: cannot unmarshal into slice of float64"
                           [] scn.typ = "BadOpt" -> "unknown option unknownopt" ]_vars

\* Unmarshal into a used BadFloat record of a mapping with a value for its
\* valid field: the float64 field fails the compilation and the valid field
\* keeps its value.
WitnessCompileFailure ==
    /\ scn.typ = "BadFloat" /\ call.op = "Unmarshal" /\ call.mode = "pointer"
    /\ call.compiled /\ call.rec0 = Dirty("BadFloat")
    /\ MapGet(v, "Field") = <<"7", "x">>
    /\ call.err = "struct field Float64: cannot unmarshal into float64"
    /\ call.rec = Dirty("BadFloat") /\ ustor = <<>>

(***************************************************************************)
(* C16  Pointers in Marshal.  For a type whose marshal plan compiles and a *)
(* non-nil mapping: Marshal of the address of a record returns what        *)
(* Marshal of the record returns and leaves the mapping it leaves; Marshal *)
(* of a nil pointer to the record returns the missing-value error and      *)
(* writes nothing; and for every pointer field the call comes to, of a     *)
(* record passed by value, a non-nil pointer makes the call write what the *)
(* plan of the element writes for the value pointed to (or return its      *)
(* error), a nil pointer makes it return the missing-value error that      *)
(* names the key when the field is required and write nothing under the    *)
(* key otherwise.                                                          *)
(***************************************************************************)
PointerMarshal ==
    [][ (call'.op = "Marshal" /\ ~v.nil /\ MPlan.err = "") =>
          /\ call'.mode = "pointer" =>
                \A r \in {Marshaler_Marshal(scn.marshaler, mstor,
                              Value(scn.typ, call'.rec0, FALSE), v)} :
                    call'.err = r.err /\ v' = r.v
          /\ call'.mode = "nilpointer" =>
                (call'.err = errMissingValue /\ v' = v)
          /\ call'.mode = "value" =>
                \A L \in {MarshalLeaves(call'.rec0)} :
                  \A i \in 1..Len(L) :
                    (L[i].plan.t = "pointerMarshaler" /\ MReached(L, i)) =>
                      IF L[i].src.val.nil
                      THEN IF L[i].plan.required
                           THEN call'.err = MissingValueError(L[i].plan.key)
                           ELSE SameEntry(v, v', L[i].plan.key)
                      ELSE \A r \in {marshal(L[i].plan.elem,
                                             ValueElem(L[i].src), EmptyMap)} :
                             IF r.err # "" THEN call'.err = r.err
                             ELSE \A k \in DOMAIN r.v.m :
                                    MapGet(v', k) = r.v.m[k] ]_vars

\* Marshal of a Ptrs record with both pointers nil into the empty mapping
\* wrote nothing.
WitnessPointerMarshal ==
    /\ scn.typ = "Ptrs" /\ call.op = "Marshal" /\ call.mode = "value"
    /\ call.rec0 = <<NilPtr, NilPtr>> /\ call.err = "" /\ v = EmptyMap

(***************************************************************************)
(* C17  A conversion implemented by address.  For a record with a field    *)
(* whose type has MarshalValue on the pointer receiver only, passed to     *)
(* Marshal by value or by address with a non-nil mapping: when the call    *)
(* comes to the field it calls the conversion on the address of the field  *)
(* and the entry of the key of the field is the sequence returned; the     *)
(* call returns no error unless another field returns it.                  *)
(***************************************************************************)
AddressedConversion ==
    [][ ( /\ call'.op = "Marshal" /\ call'.mode \in {"value", "pointer"}
          /\ ~v.nil /\ MPlan.err = "" ) =>
          \A L \in {MarshalLeaves(call'.rec0)} :
            \A i \in 1..Len(L) :
              ( /\ L[i].plan.t = "methodMarshaler" /\ L[i].plan.ptrReceiver
                /\ MReached(L, i) ) =>
                  /\ HasKey(v', L[i].plan.key)
                  /\ v'.m[L[i].plan.key]
                        = MarshalValue(ValueAddr(L[i].src)).val
                  /\ \/ call'.err = ""
                     \/ \E j \in (1..Len(L)) \ {i} :
                           LeafErr(L[j]) = call'.err ]_vars

\* Marshal of a Custom record, whose field converts by address, passed by
\* value: the call returned the error of the value that cannot be addressed.
WitnessAddressedConversion ==
    /\ scn.typ = "Custom" /\ call.op = "Marshal" /\ call.mode = "value"
    /\ call.rec0 = <<<<"x", "y">>>> /\ ~v.nil
    /\ call.err = "unable to call MarshalValue to an unadressable value"

(***************************************************************************)
(* C18  Declared order, first failure ends the call, nothing is undone.    *)
(* A failed Marshal of a record returns the error of the first field, in   *)
(* declared order, that fails; the mapping holds the new entries of the    *)
(* fields before it and the entries of the keys of that field and of the   *)
(* later fields are as they were.  A failed Unmarshal returns the error of *)
(* the first field that fails; the fields before it hold their new values  *)
(* and the fields after it are as they were.                               *)
(***************************************************************************)
FailFastMarshal ==
    ( /\ call'.op = "Marshal" /\ call'.mode = "value" /\ ~v.nil
      /\ MPlan.err = "" /\ call'.err # "" ) =>
      \A L \in {MarshalLeaves(call'.rec0)} :
        /\ \E f \in 1..Len(L) : MReached(L, f) /\ LeafErr(L[f]) # ""
        /\ \A f \in 1..Len(L) :
              (MReached(L, f) /\ LeafErr(L[f]) # "") =>
                /\ call'.err = LeafErr(L[f])
                /\ \A i \in 1..(f - 1) :
                      \A k \in MarshalKeys(L[i].plan) :
                        SameEntry(marshal(L[i].plan, L[i].src, v).v, v', k)
                /\ \A j \in f..Len(L) :
                      \A k \in MarshalKeys(L[j].plan) :
                        SameEntry(v, v', k)

FailFastUnmarshal ==
    ( /\ call'.op = "Unmarshal" /\ call'.mode = "pointer"
      /\ UPlan.err = "" /\ call'.err # "" ) =>
      \A L \in {UnmarshalLeaves(call'.rec0)} :
        /\ \E f \in 1..Len(L) : UReached(L, f, v) /\ ULeafErr(L[f], v) # ""
        /\ \A f \in 1..Len(L) :
              (UReached(L, f, v) /\ ULeafErr(L[f], v) # "") =>
                /\ call'.err = ULeafErr(L[f], v)
                /\ \A i \in 1..(f - 1) :
                      ValueAt(call'.rec, L[i].path)
                        = unmarshalField(<<>>, L[i].field, v, L[i].parent)
                            .val[L[i].field.index]
                /\ \A j \in (f + 1)..Len(L) :
                      ValueAt(call'.rec, L[j].path)
                        = ValueAt(call'.rec0, L[j].path)

FailFast == [][FailFastMarshal /\ FailFastUnmarshal]_vars

\* A Mid record: Marshal failed at the required empty N after writing a and
\* left z as it was; Unmarshal of that mapping then failed at N after
\* setting A and left Z as it was.
WitnessFailFast ==
    /\ scn.typ = "Mid" /\ call.op = "Unmarshal" /\ call.mode = "pointer"
    /\ call.rec0 = Dirty("Mid")
    /\ MapGet(v, "a") = <<"a">> /\ MapGet(v, "z") = <<"7", "x">>
    /\ MapGet(v, "n") = <<"7", "x">>
    /\ call.err = "int slice index #1: " \o ParseInt("x", 8).err
    /\ call.rec[1] = "a" /\ call.rec[2] = <<7, 99>> /\ call.rec[3] = "old"

(***************************************************************************)
(* C19  Integer slices are converted position by position.  When           *)
(* Unmarshal comes to a field that is a slice of integers and whose key    *)
(* has a sequence of one element or more: if every element of the sequence *)
(* parses, the field has the length of the sequence and its i-th element   *)
(* is the integer the i-th element parses to; otherwise the call returns   *)
(* the error that names the smallest position (counted from 0) that does   *)
(* not parse and wraps the error of the parse; for the sequence 1, 2, x    *)
(* that is position 2.                                                     *)
(***************************************************************************)
IntSlicePositional ==
    ( /\ call.op = "Unmarshal" /\ call.mode = "pointer"
      /\ UPlan.err = "" ) =>
      \A L \in {UnmarshalLeaves(call.rec0)} :
        \A i \in 1..Len(L) :
          ( /\ L[i].field.unmarshaler.t = "sliceUnmarshaler"
            /\ L[i].field.unmarshaler.bitSize > 0
            /\ HasKey(v, L[i].field.name)
            /\ Len(v.m[L[i].field.name]) > 0
            /\ UReached(L, i, v) ) =>
              LET in == v.m[L[i].field.name]
                  bits == L[i].field.unmarshaler.bitSize
                  out == ValueAt(call.rec, L[i].path)
                  Bad(k) == ParseInt(in[k], bits).err # ""
              IN  /\ (\A k \in 1..Len(in) : ~Bad(k)) =>
                        /\ Len(out) = Len(in)
                        /\ \A k \in 1..Len(in) :
                              out[k] = ParseInt(in[k], bits).val
                        /\ ULeafErr(L[i], v) = ""
                  /\ \A b \in 1..Len(in) :
                        (Bad(b) /\ \A k \in 1..(b - 1) : ~Bad(k)) =>
                          call.err = "int slice index #" \o FormatInt(b - 1)
                                     \o ": " \o ParseInt(in[b], bits).err
                  /\ in = <<"1", "2", "x">> =>
                        call.err = "int slice index #2: strconv.ParseInt: "
                                   \o "parsing \"x\": invalid syntax"

\* Unmarshal of a mapping with int_slice[] = 1, 2, x: the call failed and
\* the two elements before the failing one are converted.
WitnessIntSlicePositional ==
    /\ scn.typ = "Slices" /\ call.op = "Unmarshal" /\ call.mode = "pointer"
    /\ MapGet(v, "int_slice[]") = <<"1", "2", "x">>
    /\ call.rec0 = Zero("Slices")
    /\ call.err = "int slice index #2: strconv.ParseInt: "
                  \o "parsing \"x\": invalid syntax"
    /\ call.rec[2] = <<1, 2, 0>>

(***************************************************************************)
(* C20  The keys of anonymous fields.  For a record type with anonymous    *)
(* fields and a Marshaler without key transform, in the marshal plan and   *)
(* in the unmarshal plan: the leaves of an anonymous record, or pointer to *)
(* a record, without a tag name have the keys the plan of that record by   *)
(* itself gives them; with a tag name they have these keys after the tag   *)
(* name and the delimiter; an anonymous field that is not a record has the *)
(* name of its type as key, or its tag name.  With the same delimiter the  *)
(* two plans give every leaf the same key.                                 *)
(***************************************************************************)
AnonKeys(f, d, dir, sub) ==
    LET tag == Split(f.Tag, ",")
    IN  IF RecordKind(f.Type, dir)
        THEN IF tag[1] = "" THEN sub
             ELSE [k \in 1..Len(sub) |-> tag[1] \o d \o sub[k]]
        ELSE <<IF tag[1] = "" THEN f.Name ELSE tag[1]>>

AnonymousFields(typ) ==
    IF Kind(typ) = "struct"
    THEN {i \in 1..NumField(typ) : Field(typ, i).Anonymous}
    ELSE {}

EmbeddedKeys ==
    ( /\ call.op \in {"Marshal", "Unmarshal"}
      /\ AnonymousFields(scn.typ) # {}
      /\ scn.marshaler.KeyLookupFunc = "nil" ) =>
      /\ \A P \in {MPlan} : P.err = "" =>
            /\ \A i \in AnonymousFields(scn.typ) :
                  \A j \in 1..Len(P.m.fields) :
                    P.m.fields[j].index = i =>
                      MarshalKeySeq(P.m.fields[j].marshaler)
                        = AnonKeys(Field(scn.typ, i),
                                   marshalDelimiter(scn.marshaler), "m",
                                   MarshalKeySeq(
                                     newMarshaler(
                                       marshalConfig(scn.marshaler),
                                       RecordOf(Field(scn.typ, i).Type)).m))
            /\ scn.typ = "Embeds" =>
                  MarshalKeySeq(P.m)
                    = <<"first_name", "job.JobTitle", "RawValue", "X">>
      /\ \A U \in {UPlan} : U.err = "" =>
            /\ \A i \in AnonymousFields(scn.typ) :
                  \A j \in 1..Len(U.unm.fields) :
                    U.unm.fields[j].index = i =>
                      UnmarshalKeySeq([t |-> "structUnmarshaler",
                                       fields |-> <<U.unm.fields[j]>>])
                        = AnonKeys(Field(scn.typ, i),
                                   unmarshalDelimiter(scn.ucfg), "u",
                                   UnmarshalKeySeq(
                                     newUnmarshaler(
                                       unmarshalConfig(scn.ucfg),
                                       RecordOf(Field(scn.typ, i).Type)).unm))
            /\ scn.typ = "Embeds" =>
                  UnmarshalKeySeq(U.unm)
                    = <<"first_name", "job.JobTitle", "RawValue", "X">>
            /\ \A P \in {MPlan} :
                  ( /\ P.err = ""
                    /\ marshalDelimiter(scn.marshaler)
                         = unmarshalDelimiter(scn.ucfg) ) =>
                      MarshalKeySeq(P.m) = UnmarshalKeySeq(U.unm)

\* Unmarshal into a zero Embeds record of a mapping with 7, x under every
\* key: the fields of the embedded records and the embedded custom type
\* are set from first_name, job.JobTitle, RawValue and X.
WitnessEmbeddedKeys ==
    /\ scn.typ = "Embeds" /\ call.op = "Unmarshal" /\ call.mode = "pointer"
    /\ call.compiled /\ call.err = "" /\ call.rec0 = Zero("Embeds")
    /\ MapGet(v, "first_name") = <<"7", "x">>
    /\ MapGet(v, "job.JobTitle") = <<"7", "x">>
    /\ call.rec = <<<<"7">>, <<"7">>, <<"7", "x">>, PtrTo(<<"7">>)>>

(***************************************************************************)
(* The compilers step by step.  One caller makes Marshal and Unmarshal     *)
(* calls on types whose plans are not yet cached; every step is one call   *)
(* or one return of newMarshaler / newValueMarshaler / newStructMarshaler  *)
(* (or of their unmarshal counterparts).  desc.stack holds the calls that  *)
(* have not returned: a frame of a record type is the field loop of        *)
(* newStructMarshaler at its i-th field, a frame of a pointer type is the  *)
(* pointer case waiting for the plan of its element (i = 0) or holding it  *)
(* (i = 1).  The plans themselves are left out, the control flow and the   *)
(* errors are kept.                                                        *)
(***************************************************************************)

\* The types the caller passes
DescentTypes ==
    {"Names", "Person", "Ptrs", "BadFloat", "BadOpt", "NestedReqP", "Embeds",
     "*Inner", "string", "Node", "*Node", "Tree"}

\* The depth of the stack at which the runtime ends the program (the stack
\* of a goroutine has a maximum size).
MaxDepth == 6

MaxCalls == 2

StructFrame(typ) ==
    [k |-> "struct", typ |-> typ, i |-> 1, root |-> FALSE, req |-> FALSE,
     opt |-> FALSE, nested |-> TRUE]

PtrFrame(typ, root, req, opt) ==
    [k |-> "ptr", typ |-> typ, i |-> 0, root |-> root, req |-> req,
     opt |-> opt, nested |-> FALSE]

\* What a call of newMarshaler (root) or newValueMarshaler on typ does
\* first, in direction dir ("m" marshal, "u" unmarshal), with the options
\* req and opt of the field in its configuration: it returns a leaf plan,
\* returns an error, or calls on (the frame to push).
Dispatch(dir, typ, root, req, opt) ==
    LET custom(t) == IF dir = "m" THEN ImplementsValueMarshaler(t)
                     ELSE ImplementsValueUnmarshaler(t)
        verb == IF dir = "m" THEN "cannot marshal from "
                ELSE "cannot unmarshal into "
        leaf == [do |-> "leaf", err |-> "", frame |-> StructFrame("")]
        fail(msg) == [do |-> "fail", err |-> msg, frame |-> StructFrame("")]
        push(f) == [do |-> "push", err |-> "", frame |-> f]
    IN  IF ~root /\ (custom(typ) \/ custom(PointerTo(typ))) THEN leaf
        ELSE CASE Kind(typ) = "ptr" -> push(PtrFrame(typ, root, req, opt))
               [] Kind(typ) = "struct" ->
                    IF dir = "m" /\ ~root /\ (req \/ opt)
                    THEN fail("cannot set any option for struct")
                    ELSE push(StructFrame(typ))
               [] OTHER ->
                    IF root THEN fail(verb \o Kind(typ))
                    ELSE IF Kind(typ) = "slice"
                    THEN IF \/ Kind(Elem(typ)) = "string"
                            \/ Kind(Elem(typ)) \in IntKinds
                         THEN leaf
                         ELSE fail(verb \o "slice of " \o Kind(Elem(typ)))
                    ELSE IF Kind(typ) = "string" \/ Kind(typ) \in IntKinds
                    THEN leaf
                    ELSE fail(verb \o Kind(typ))

RECURSIVE WrapError(_, _, _)
\* The error as the calls below the j-th frame return it: each
\* newFieldMarshaler on the way prefixes the name of its field.
WrapError(stack, j, err) ==
    IF j < 1 THEN err
    ELSE IF stack[j].k = "struct"
    THEN WrapError(stack, j - 1,
                   "struct field " \o Field(stack[j].typ, stack[j].i).Name
                   \o ": " \o err)
    ELSE WrapError(stack, j - 1, err)

\* The compile function returns to the cache: getSync stores a plan that
\* compiled, unlocks and returns.
Returned(err) ==
    [desc EXCEPT !.pc = "returned", !.stack = <<>>, !.err = err,
                 !.lock = FALSE,
                 !.stor = IF err = "" THEN @ \cup {<<desc.dir, desc.root>>}
                          ELSE @]

\* The top frame with its callee returned: the field loop goes to its next
\* field, the pointer case holds the plan of its element.
Resume(stack, nested) ==
    LET n == Len(stack)
        top == stack[n]
    IN  IF top.k = "struct"
        THEN [stack EXCEPT ![n].i = @ + 1]
        ELSE [stack EXCEPT ![n].i = 1, ![n].nested = nested]

\* The outcome d of a call made by the top frame; an error is prefixed by
\* the frames up to the one at wrapFrom.
Outcome(d, wrapFrom) ==
    CASE d.do = "fail" ->
            desc' = Returned(WrapError(desc.stack, wrapFrom, d.err))
      [] d.do = "leaf" ->
            desc' = [desc EXCEPT !.stack = Resume(desc.stack, FALSE)]
      [] d.do = "push" ->
            /\ Len(desc.stack) < MaxDepth
            /\ desc' = [desc EXCEPT
                          !.stack = Append(@, d.frame),
                          !.depth = IF Len(desc.stack) + 1 > @
                                    THEN Len(desc.stack) + 1 ELSE @]

\* newFieldMarshaler / newFieldUnmarshaler on the field f up to the first
\* thing its call of newValueMarshaler / newValueUnmarshaler does; own says
\* whether an error is prefixed with the name of f.
FieldCall(dir, f) ==
    LET tag == Split(f.Tag, ",")
        mopts == marshalApplyOptions(
                   [Required |-> FALSE, OmitEmpty |-> FALSE], tag, 2)
        uopts == unmarshalApplyOptions([required |-> FALSE], tag, 2)
        opterr == IF dir = "m" THEN mopts.err ELSE uopts.err
        req == IF dir = "m" THEN mopts.c.Required ELSE uopts.c.required
        opt == dir = "m" /\ mopts.c.OmitEmpty
        early(msg) == [do |-> "fail", err |-> msg, frame |-> StructFrame(""),
                       own |-> FALSE]
    IN  IF tag[1] = "-" /\ Len(tag) = 1
        THEN [do |-> "leaf", err |-> "", frame |-> StructFrame(""),
              own |-> FALSE]
        ELSE IF opterr # "" THEN early(opterr)
        ELSE IF dir = "m" /\ req /\ opt
        THEN early("a field cannot be set as both required and omitempty")
        ELSE Dispatch(dir, f.Type, FALSE, req, opt) @@ [own |-> TRUE]

\* The call a pointer frame makes on its element type
ElemCall(dir, top) == Dispatch(dir, Elem(top.typ), top.root, top.req, top.opt)

\* Marshal(src, v) or Unmarshal(v, &dst) with src, dst of type typ: the
\* plan is in the cache, or getSync locks the cache and calls newMarshaler /
\* newUnmarshaler.
Compile_call(dir, typ) ==
    /\ desc.pc \in {"idle", "returned"}
    /\ desc.calls < MaxCalls
    /\ LET start == [desc EXCEPT !.dir = dir, !.root = typ, !.stack = <<>>,
                                 !.err = "", !.calls = @ + 1, !.depth = 0]
       IN  IF <<dir, typ>> \in desc.stor
           THEN desc' = [start EXCEPT !.pc = "returned"]
           ELSE \E d \in {Dispatch(dir, typ, TRUE, FALSE, FALSE)} :
                  IF d.do = "fail"
                  THEN desc' = [start EXCEPT !.pc = "returned", !.err = d.err]
                  ELSE desc' = [start EXCEPT !.pc = "compiling", !.lock = TRUE,
                                             !.stack = <<d.frame>>,
                                             !.depth = 1]
    /\ UNCHANGED <<svars, cvars, mem>>

\* newFieldMarshaler / newFieldUnmarshaler on the i-th field of the record
\* of the top frame: the field is skipped, fails, gets a leaf plan, or its
\* type is compiled by a further call.
Compile_field ==
    /\ desc.pc = "compiling"
    /\ LET n == Len(desc.stack)
           top == desc.stack[n]
       IN  /\ top.k = "struct" /\ top.i <= NumField(top.typ)
           /\ \E d \in {FieldCall(desc.dir, Field(top.typ, top.i))} :
                  Outcome(d, IF d.own THEN n ELSE n - 1)
    /\ UNCHANGED <<svars, cvars, mem>>

\* The pointer case of newMarshaler / newValueMarshaler calls itself on the
\* element type.
Compile_elem ==
    /\ desc.pc = "compiling"
    /\ LET n == Len(desc.stack)
           top == desc.stack[n]
       IN  /\ top.k = "ptr" /\ top.i = 0
           /\ \E d \in {ElemCall(desc.dir, top)} : Outcome(d, n - 1)
    /\ UNCHANGED <<svars, cvars, mem>>

\* The call of the top frame returns its plan: to the cache when it is the
\* first call, else to its caller; newFieldUnmarshaler refuses a nested
\* plan for a required field.
Compile_return ==
    /\ desc.pc = "compiling"
    /\ LET n == Len(desc.stack)
           top == desc.stack[n]
           rest == SubSeq(desc.stack, 1, n - 1)
       IN  /\ \/ top.k = "struct" /\ top.i > NumField(top.typ)
              \/ top.k = "ptr" /\ top.i = 1
           /\ IF n = 1 THEN desc' = Returned("")
              ELSE IF /\ rest[n - 1].k = "struct" /\ desc.dir = "u"
                      /\ top.nested
                      /\ unmarshalApplyOptions(
                           [required |-> FALSE],
                           Split(Field(rest[n - 1].typ, rest[n - 1].i).Tag,
                                 ","), 2).c.required
              THEN desc' = Returned(WrapError(rest, n - 2,
                               "cannot set required option for struct"))
              ELSE desc' = [desc EXCEPT !.stack = Resume(rest, top.nested)]
    /\ UNCHANGED <<svars, cvars, mem>>

\* A call made when the stack of the goroutine is at its maximum size: the
\* runtime ends the program (fatal error: stack overflow); the deferred
\* Unlock does not run.
Compile_overflow ==
    /\ desc.pc = "compiling"
    /\ Len(desc.stack) = MaxDepth
    /\ LET top == desc.stack[Len(desc.stack)]
       IN  \/ /\ top.k = "ptr" /\ top.i = 0
              /\ ElemCall(desc.dir, top).do = "push"
           \/ /\ top.k = "struct" /\ top.i <= NumField(top.typ)
              /\ FieldCall(desc.dir, Field(top.typ, top.i)).do = "push"
    /\ desc' = [desc EXCEPT !.pc = "fatal"]
    /\ UNCHANGED <<svars, cvars, mem>>

CompileInit ==
    /\ scn = Scenario("Names", DefaultMarshaler, UnmarshalConfig(""))
    /\ v = EmptyMap
    /\ mstor = <<>>
    /\ ustor = <<>>
    /\ call = NoCall
    /\ prov = NoProv
    /\ CacheIdle
    /\ DescentIdle
    /\ MemIdle

CompileNext ==
    \/ \E dir \in {"m", "u"} : \E typ \in DescentTypes : Compile_call(dir, typ)
    \/ Compile_field
    \/ Compile_elem
    \/ Compile_return
    \/ Compile_overflow

CompileSpec == CompileInit /\ [][CompileNext]_vars

\* For the types that do not contain themselves, a call returns the error
\* of the compilers written as recursive functions.
DescentAgrees ==
    (desc.pc = "returned" /\ desc.root \notin {"Node", "*Node", "Tree"}) =>
        desc.err = (IF desc.dir = "m"
                    THEN newMarshaler(marshalConfig(DefaultMarshaler),
                                      desc.root).err
                    ELSE newUnmarshaler(unmarshalConfig(UnmarshalConfig("")),
                                        desc.root).err)

(***************************************************************************)
(* C21  Compilation terminates.  In every call the descent of the compiler *)
(* is finite: no record type is being compiled within its own compilation  *)
(* (a descent that comes back to a type it has not finished goes on for    *)
(* ever), the stack is never exhausted, and a call that has returned has   *)
(* released the write lock of the cache.                                   *)
(***************************************************************************)
CompileTerminates ==
    /\ desc.pc # "fatal"
    /\ \A i, j \in 1..Len(desc.stack) :
          ( /\ i < j /\ desc.stack[i].k = "struct"
            /\ desc.stack[j].k = "struct" ) =>
              desc.stack[i].typ # desc.stack[j].typ
    /\ desc.pc = "returned" => ~desc.lock

\* The unmarshal plan of Embeds, which nests records directly and behind a
\* pointer, compiled in a descent three calls deep and the call returned
\* with the lock released; the recursive compiler gives the same result.
WitnessCompileTerminates ==
    /\ desc.pc = "returned" /\ desc.dir = "u" /\ desc.root = "Embeds"
    /\ desc.depth = 3 /\ desc.err = "" /\ ~desc.lock
    /\ <<"u", "Embeds">> \in desc.stor
    /\ newUnmarshaler(unmarshalConfig(UnmarshalConfig("")), "Embeds").err = ""

(***************************************************************************)
(* C22  Get never blocks the cache.  A goroutine that waits for the write  *)
(* lock does not hold the read lock; a goroutine that has come to the      *)
(* return of Get, with a plan or with the error of the compilation, holds  *)
(* neither lock; whenever a call is in progress some goroutine can take a  *)
(* step; and every Get call that was made returns.                         *)
(***************************************************************************)
CanStep(p) ==
    CASE pc[p] = "idle" -> FALSE
      [] pc[p] = "Get_RLock" -> mu.writer = 0
      [] pc[p] = "getSync_Lock" -> mu.writer = 0 /\ mu.readers = {}
      [] OTHER -> TRUE

LockDiscipline ==
    /\ \A p \in Procs :
          /\ pc[p] = "getSync_Lock" => p \notin mu.readers /\ mu.writer # p
          /\ pc[p] \in {"Get_return", "idle"} =>
                p \notin mu.readers /\ mu.writer # p
    /\ (\E p \in Procs : pc[p] # "idle") => \E p \in Procs : CanStep(p)

GetNeverBlocked ==
    /\ []LockDiscipline
    /\ \A p \in Procs : (pc[p] # "idle") ~> (pc[p] = "idle")

\* Goroutine 1 got the error of the compilation of BadFloat; goroutine 2,
\* which called Get for the same key while 1 held the write lock, ran the
\* compilation again and returned too; the lock is free.
WitnessGetNeverBlocked ==
    /\ ret[1].valid /\ ret[1].key = "BadFloat" /\ ret[1].err # ""
    /\ ret[2].valid /\ ret[2].key = "BadFloat" /\ ret[2].err # ""
    /\ ~ret[2].hitAtStart /\ ret[2].invoked
    /\ ninv["BadFloat"] = 2
    /\ pc[1] = "idle" /\ pc[2] = "idle"
    /\ mu = [readers |-> {}, writer |-> 0]

(***************************************************************************)
(* The storage of slices.  One caller unmarshals a mapping into a record   *)
(* of type Slices and then writes elements of the slices of the record.    *)
(* A slice is a header on a backing array; mem.heap[a] is the content of   *)
(* the array a.  The mapping holds a header per key, the record a header   *)
(* per field.                                                              *)
(***************************************************************************)

\* The elements a slice header shows
View(heap, h) == [i \in 1..h.len |-> heap[h.arr][i]]

\* sliceUnmarshaler.unmarshal handing the destination the slice of the
\* mapping when the elements are strings, instead of copying them.
sliceUnmarshaler_store_share(u, ctxh, h, heap) ==
    LET ctx == View(heap, ctxh)
        n == Len(ctx)
        grown == h.cap < n
        heap1 == IF grown THEN Append(heap, [i \in 1..n |-> 0]) ELSE heap
        h1 == IF grown THEN Hdr(Len(heap) + 1, n, n) ELSE Hdr(h.arr, n, h.cap)
        bad == FirstBadIndex(ctx, u.bitSize, 1)
        last == IF bad > 0 THEN bad - 1 ELSE n
    IN  IF u.bitSize = 0
        THEN [err |-> "", hdr |-> ctxh, heap |-> heap]
        ELSE [err |-> IF bad = 0 THEN ""
                      ELSE "int slice index #" \o FormatInt(bad - 1) \o ": "
                           \o ParseInt(ctx[bad], u.bitSize).err,
              hdr |-> h1,
              heap |-> [heap1 EXCEPT ![h1.arr] =
                          [i \in 1..Len(@) |->
                              IF i <= last THEN ParseInt(ctx[i], u.bitSize).val
                              ELSE @[i]]]]

\* sliceUnmarshaler.unmarshal on storage: ctxh is the header of ctx.value
\* (the slice of the mapping), h the header of the destination.  A
\* destination whose capacity is too small gets a fresh array, else its
\* length is set; then the elements are stored one by one up to the first
\* that does not parse.
sliceUnmarshaler_store(u, ctxh, h, heap) ==
    LET ctx == View(heap, ctxh)
        n == Len(ctx)
        grown == h.cap < n
        heap1 == IF grown
                 THEN Append(heap, [i \in 1..n |-> Zero(Elem(u.typ))])
                 ELSE heap
        h1 == IF grown THEN Hdr(Len(heap) + 1, n, n) ELSE Hdr(h.arr, n, h.cap)
        bad == IF u.bitSize > 0 THEN FirstBadIndex(ctx, u.bitSize, 1) ELSE 0
        last == IF bad > 0 THEN bad - 1 ELSE n
        conv(i) == IF u.bitSize > 0 THEN ParseInt(ctx[i], u.bitSize).val
                   ELSE ctx[i]
    IN  [err |-> IF bad = 0 THEN ""
                 ELSE "int slice index #" \o FormatInt(bad - 1) \o ": "
                      \o ParseInt(ctx[bad], u.bitSize).err,
         hdr |-> h1,
         heap |-> [heap1 EXCEPT ![h1.arr] =
                     [i \in 1..Len(@) |-> IF i <= last THEN conv(i) ELSE @[i]]]]

\* structUnmarshaler.unmarshalField on storage, for a field that is a slice
unmarshalField_store(field, m) ==
    LET present == /\ field.name \in DOMAIN m.map
                   /\ m.map[field.name].len > 0
        Then(r) == [m EXCEPT !.err = r.err, !.heap = r.heap,
                             !.dst[field.index] = r.hdr]
    IN  IF ~present
        THEN IF field.required
             THEN [m EXCEPT !.err = MissingKeyError(field.name)]
             ELSE [m EXCEPT !.err = "", !.dst[field.index] = NilHdr]
        ELSE Then(sliceUnmarshaler_store(field.unmarshaler,
                                         m.map[field.name],
                                         m.dst[field.index], m.heap))

RECURSIVE unmarshalFields_store(_, _, _)
\* The loop of structUnmarshaler.unmarshal on storage
unmarshalFields_store(m, fields, i) ==
    IF i > Len(fields) THEN m
    ELSE LET Then(r) == IF r.err # "" THEN r
                        ELSE unmarshalFields_store(r, fields, i + 1)
         IN  Then(unmarshalField_store(fields[i], m))

\* The value sequences of the caller's mapping
AliasSeqs == {<<>>, <<"5">>, <<"7", "x">>, <<"1", "2", "x">>}

MaxOps == 3

\* The memory at the start: the mapping with the sequences q1 and q2 in
\* the arrays 1 and 2; the record zero, or with slices of two elements in
\* the arrays 3 and 4.
StartMem(q1, q2, used) ==
    [on |-> TRUE,
     heap |-> <<q1, q2>> \o (IF used THEN << <<"old", "old">>, <<99, 99>> >>
                             ELSE <<>>),
     map |-> ("StrSlice" :> Hdr(1, Len(q1), Len(q1)))
             @@ ("int_slice[]" :> Hdr(2, Len(q2), Len(q2))),
     dst |-> IF used THEN <<Hdr(3, 2, 2), Hdr(4, 2, 2)>>
             ELSE <<NilHdr, NilHdr>>,
     orig |-> ("StrSlice" :> q1) @@ ("int_slice[]" :> q2),
     err |-> "", ops |-> 0, last |-> "none"]

AliasInit ==
    /\ scn = Scenario("Slices", DefaultMarshaler, UnmarshalConfig(""))
    /\ v = EmptyMap
    /\ mstor = <<>>
    /\ ustor = <<>>
    /\ call = NoCall
    /\ prov = NoProv
    /\ CacheIdle
    /\ DescentIdle
    /\ mem \in {StartMem(q1, q2, used) :
                  q1 \in AliasSeqs, q2 \in AliasSeqs, used \in BOOLEAN}

\* Unmarshal(mapping, &record)
Alias_Unmarshal ==
    /\ mem.on /\ mem.ops < MaxOps
    /\ \E r \in {unmarshalFields_store(mem, UPlan.unm.fields, 1)} :
          mem' = [r EXCEPT !.ops = @ + 1, !.last = "Unmarshal"]
    /\ UNCHANGED <<svars, cvars, desc>>

\* The caller stores a new element in the slice of field f of the record:
\* record.F[i-1] = "z" (or 5).
Alias_Mutate(f, i) ==
    /\ mem.on /\ mem.ops < MaxOps
    /\ i <= mem.dst[f].len
    /\ mem' = [mem EXCEPT !.heap[mem.dst[f].arr][i] = IF f = 1 THEN "z" ELSE 5,
                          !.ops = @ + 1, !.last = "Mutate"]
    /\ UNCHANGED <<svars, cvars, desc>>

AliasNext ==
    \/ Alias_Unmarshal
    \/ \E f \in 1..2 : \E i \in 1..3 : Alias_Mutate(f, i)

AliasSpec == AliasInit /\ [][AliasNext]_vars

\* What the record shows after an Unmarshal into slices that are full
\* (length = capacity) is what the executor on values computes.
StoreAgrees ==
    [][ ( /\ mem'.last = "Unmarshal" /\ mem'.ops = mem.ops + 1
          /\ \A f \in 1..2 : mem.dst[f].len = mem.dst[f].cap ) =>
          \E r \in {unmarshalerCache_Unmarshal(
                      UnmarshalConfig(""), <<>>,
                      MakeMap([k \in DOMAIN mem.map |->
                                  View(mem.heap, mem.map[k])]),
                      Argument("Slices",
                               [f \in 1..2 |-> View(mem.heap, mem.dst[f])],
                               "pointer"))} :
              /\ r.err = mem'.err
              /\ r.dst.elem = [f \in 1..2 |-> View(mem'.heap, mem'.dst[f])]
      ]_vars

(***************************************************************************)
(* C23  Unmarshal leaves the mapping alone.  After every Unmarshal into a  *)
(* record of string and integer slices, whether it succeeded or failed,    *)
(* and after every later write of an element of a slice of the record,     *)
(* the mapping has the keys and the value sequences it had at the start,   *)
(* and no slice of the record shares its array with a sequence of the      *)
(* mapping.                                                                *)
(***************************************************************************)
MappingUntouched ==
    mem.on =>
      /\ DOMAIN mem.map = DOMAIN mem.orig
      /\ \A k \in DOMAIN mem.map : View(mem.heap, mem.map[k]) = mem.orig[k]
      /\ \A f \in 1..Len(mem.dst) : \A k \in DOMAIN mem.map :
            mem.dst[f].arr # 0 => mem.dst[f].arr # mem.map[k].arr

\* Unmarshal of StrSlice = 7, x and int_slice[] = 1, 2, x failed at the
\* third integer; the caller then overwrote the first string of the record:
\* the record shows z, x and the mapping still 7, x.
WitnessMappingUntouched ==
    /\ mem.on /\ mem.last = "Mutate" /\ mem.ops = 2
    /\ mem.orig["StrSlice"] = <<"7", "x">>
    /\ mem.orig["int_slice[]"] = <<"1", "2", "x">>
    /\ mem.err = "int slice index #2: " \o ParseInt("x", 8).err
    /\ View(mem.heap, mem.dst[1]) = <<"z", "x">>
    /\ View(mem.heap, mem.dst[2]) = <<1, 2, 0>>
    /\ View(mem.heap, mem.map["StrSlice"]) = <<"7", "x">>


(***************************************************************************)
(* Pointer destinations of Unmarshal (pointerUnmarshaler.unmarshal and     *)
(* the SetZero of structUnmarshaler.unmarshalField)                        *)
(***************************************************************************)

\* The pointee pointerUnmarshaler.unmarshal leaves when the element plan of
\* u runs in place on a pointee that held old.
PointeeAfter(u, ctx, old) ==
    unmarshal(u.elem, ctx, v, Value(u.elemTyp, old, TRUE)).val

\* The pointee of the root after a successful call: the plan of the record
\* run in place on what the pointer held, or on a new zero record.
RootPointeeAfter(old) ==
    unmarshal(UPlan.unm, <<>>, v,
              Value(scn.typ, IF old.nil THEN Zero(scn.typ) ELSE old.elem,
                    TRUE)).val

\* A nil pointer destination after a successful call: a pointer to a record
\* is allocated and filled whatever the mapping holds; a pointer to a leaf
\* is allocated and converted into when its key holds a value, and is nil
\* when it does not.
NilPointerRule(leaf) ==
    LET field == leaf.field
        got == getValue(v, field.name)
        new == ValueAt(call.rec, leaf.path)
    IN  IF field.nested
        THEN /\ ~new.nil
             /\ new.elem = PointeeAfter(field.unmarshaler, <<>>,
                                        Zero(field.unmarshaler.elemTyp))
        ELSE /\ new.nil <=> ~got.ok
             /\ got.ok => new.elem = PointeeAfter(field.unmarshaler, got.val,
                                          Zero(field.unmarshaler.elemTyp))

\* A non-nil pointer destination keeps its pointee, which the element plan
\* updates in place.
KeptPointerRule(leaf) ==
    LET field == leaf.field
        got == getValue(v, field.name)
        old == ValueAt(call.rec0, leaf.path)
        new == ValueAt(call.rec, leaf.path)
    IN  /\ ~new.nil
        /\ new.elem = PointeeAfter(field.unmarshaler,
                                   IF field.nested THEN <<>> ELSE got.val,
                                   old.elem)

\* The rules of the root pointee, for the calls Unmarshal(v, &p) with p a
\* pointer to the record.
RootPointerRule ==
    (call.op = "Unmarshal" /\ call.mode = "ptrptr" /\ call.err = "") =>
        /\ ~call.rec.nil
        /\ call.rec.elem = RootPointeeAfter(call.rec0)

\* The pointer fields of the record have the plan of a pointer.
PointerLeaf(leaf) == leaf.field.unmarshaler.t = "pointerUnmarshaler"

(***************************************************************************)
(* C24  Pointer destinations, every non-nil pointer kept.  After a         *)
(* successful Unmarshal: a nil pointer to a record (the pointee of the     *)
(* root, a nested record field) is allocated and filled even when the      *)
(* mapping is nil or holds none of its keys; a nil pointer to a leaf is    *)
(* allocated when its key holds a value and is nil when it does not; and   *)
(* EVERY pointer that was not nil before the call is not nil after it,     *)
(* its pointee updated in place.                                           *)
(***************************************************************************)
PointersKept ==
    /\ RootPointerRule
    /\ (call.op = "Unmarshal" /\ call.mode = "pointer" /\ call.err = "") =>
          \A U \in {UnmarshalLeaves(call.rec0)} :
              \A i \in 1..Len(U) :
                PointerLeaf(U[i]) =>
                    IF ValueAt(call.rec0, U[i].path).nil
                    THEN NilPointerRule(U[i])
                    ELSE KeptPointerRule(U[i])

(***************************************************************************)
(* C24  Pointer destinations, a non-nil leaf pointer without a value set   *)
(* to nil.  After a successful Unmarshal: the rules of nil pointers as     *)
(* above; a pointer that was not nil before the call, to a record or to a  *)
(* leaf whose key holds at least one value, is not nil after it and its    *)
(* pointee is updated in place (a field the plan skips keeps what it       *)
(* held); a pointer that was not nil, to a leaf whose key is absent or     *)
(* holds no value, is nil after the call.                                  *)
(***************************************************************************)
PointersLazy ==
    /\ RootPointerRule
    /\ (call.op = "Unmarshal" /\ call.mode = "pointer" /\ call.err = "") =>
          \A U \in {UnmarshalLeaves(call.rec0)} :
              \A i \in 1..Len(U) :
                PointerLeaf(U[i]) =>
                    CASE ValueAt(call.rec0, U[i].path).nil ->
                            NilPointerRule(U[i])
                      [] ~ValueAt(call.rec0, U[i].path).nil
                         /\ ( \/ U[i].field.nested
                              \/ getValue(v, U[i].field.name).ok ) ->
                            KeptPointerRule(U[i])
                      [] OTHER -> ValueAt(call.rec, U[i].path).nil

\* Unmarshal of a mapping without the keys into a used PtrKeep record: the
\* pointer to the record Keep is kept, its field X zeroed and its skipped
\* field left as it was, and the pointer to the string is set to nil.
WitnessPointersLazy ==
    /\ scn.typ = "PtrKeep" /\ call.op = "Unmarshal" /\ call.mode = "pointer"
    /\ call.err = "" /\ ~HasKey(v, "p")
    /\ call.rec0 = <<PtrTo(<<"old", "old">>), PtrTo("old")>>
    /\ call.rec = <<PtrTo(<<"", "old">>), NilPtr>>

====
